---- MODULE Spec2Model ----
(***************************************************************************)
(* State-machine model of pyMOR components:                                *)
(*   - pymor.algorithms.sylvester.solve_sylv_schur   (specification Spec)  *)
(*   - pymor.parameters.functionals                  (SpecFunctionals)     *)
(***************************************************************************)
EXTENDS Integers, Sequences, FiniteSets, TLC

\* ------------------------------------------------------------------------
\* Bounds of the model
\* ------------------------------------------------------------------------
\* largest reduced order r = Ar.shape[0] explored
MaxR == 3

\* ------------------------------------------------------------------------
\* Values: operators, spaces, symbolic complex scalars
\* ------------------------------------------------------------------------
\* Python's None, an object that is no OperatorInterface, and an operator
\* with its attributes linear / source / range.
None == [kind |-> "None", linear |-> FALSE, source |-> "-", range |-> "-"]
NotOp == [kind |-> "NotOp", linear |-> FALSE, source |-> "-", range |-> "-"]
Op(lin, src, rng) == [kind |-> "Op", linear |-> lin, source |-> src, range |-> rng]

\* IdentityOperator(space), line 74
IdentityOperator(space) == Op(TRUE, space, space)

\* The calls explored: "n" is the full-order space, "r" the reduced space,
\* "m" the input/output space.
ACandidates == {Op(TRUE, "n", "n"), Op(FALSE, "n", "n"), Op(TRUE, "n", "m"), NotOp}
ArCandidates == {Op(TRUE, "r", "r"), Op(FALSE, "r", "r"), Op(TRUE, "r", "m"), NotOp}
ECandidates == {None, Op(TRUE, "n", "n"), Op(TRUE, "r", "r"), Op(FALSE, "n", "n")}
ErCandidates == {None, Op(TRUE, "r", "r"), Op(TRUE, "n", "n"), Op(TRUE, "r", "m")}
BCandidates == {None, Op(TRUE, "m", "n"), Op(TRUE, "m", "r")}
BrCandidates == {None, Op(TRUE, "m", "r"), Op(TRUE, "n", "r"), NotOp}
CCandidates == {None, Op(TRUE, "n", "m"), Op(FALSE, "n", "m")}
CrCandidates == {None, Op(TRUE, "r", "m"), Op(TRUE, "r", "n"), NotOp}

\* A complex scalar: the entry (i, j) of one of the matrices produced by the
\* (generalized) Schur decomposition, possibly conjugated, or the real
\* number 1.  Indices are the non-negative positions.
Entry(m, i, j) == [m |-> m, i |-> i, j |-> j, cj |-> FALSE]
One == [m |-> "1", i |-> 0, j |-> 0, cj |-> FALSE]

\* x.conjugate(): the conjugate of a real number is the number itself
Conjugate(x) == IF x.m = "1" THEN x ELSE [x EXCEPT !.cj = ~@]

\* Python index normalisation of a possibly negative index into a
\* container of length n
PyIdx(i, n) == IF i < 0 THEN i + n ELSE i

VARIABLES
  A, Ar, E, Er, B, Br, C, Cr,   \* the arguments of the call
  rdim,                         \* dimension of the reduced space "r"
  pc,                           \* position in solve_sylv_schur
  error,                        \* exception that ended the call, or "none"
  Eloc,                         \* local E after line 74
  compute_V, compute_W,         \* lines 77-78
  conv,                         \* which reduced operators were converted
  schur,                        \* names of the Schur factors TAr, TEr, Q, Z
  heap,                         \* the arrays BBr2, CTCr2 and the current rhs
  rhsRef,                       \* where the name rhs points to
  i,                            \* loop variable
  it,                           \* iterations of the current loop done
  V, W,                         \* the arrays the columns are appended to
  Vret, Wret,                   \* V, W after the back transformation
  result,                       \* what the call returned
  calls,                        \* operations performed so far, in order
  fn,                           \* the parameter functional at hand
  fcall,                        \* the last call made: its name and arguments
  fret,                         \* what the last call returned or raised
  exprArgs,                     \* the caller's derivative expression dicts
  nt,                           \* the Newton iteration: its inputs, iterate and position
  ix,                           \* the index last drawn from valid_inds or invalid_inds
  picklable_vector_space_types, \* strategies._picklable_vector_space_types
  other_vector_space_types,     \* strategies._other_vector_space_types
  va,                           \* the last call of the vector_arrays strategy
  plot                          \* the VTKPlot at hand and the last call on it

sylvVars == <<A, Ar, E, Er, B, Br, C, Cr, rdim, pc, error, Eloc, compute_V,
              compute_W, conv, schur, heap, rhsRef, i, it, V, W, Vret,
              Wret,
              result, calls>>

funcVars == <<fn, fcall, fret, exprArgs>>

newtVars == <<nt>>

indVars == <<ix>>

stratVars == <<picklable_vector_space_types, other_vector_space_types, va>>

plotVars == <<plot>>

auxVars == <<indVars, stratVars, plotVars>>

vars == <<sylvVars, funcVars, newtVars, auxVars>>

argVars == <<A, Ar, E, Er, B, Br, C, Cr, rdim>>

\* ------------------------------------------------------------------------
\* Numbers of the parameter functionals
\* ------------------------------------------------------------------------
\* A real number is a fraction <<numerator, denominator>> in lowest terms
\* with a positive denominator.  Parameter components are whole multiples
\* of the absolute tolerance of float_cmp.
Abs(x) == IF x < 0 THEN -x ELSE x

RECURSIVE Gcd(_, _)
Gcd(a, b) == IF b = 0 THEN a ELSE Gcd(b, a % b)

Rat(n, d) ==
  LET g == Gcd(Abs(n), Abs(d))
      sg == IF d < 0 THEN -1 ELSE 1
  IN  <<(sg * n) \div g, (sg * d) \div g>>

RatOf(x) == <<x, 1>>
RatMul(a, b) == Rat(a[1] * b[1], a[2] * b[2])
RatDiv(a, b) == Rat(a[1] * b[2], a[2] * b[1])
RatLess(a, b) == a[1] * b[2] < b[1] * a[2]
RatAbs(a) == <<Abs(a[1]), a[2]>>

\* np.max / np.min of a non-empty array
RatMax(xs) ==
  CHOOSE x \in {xs[k] : k \in 1..Len(xs)} :
     \A k \in 1..Len(xs) : ~RatLess(x, xs[k])
RatMin(xs) ==
  CHOOSE x \in {xs[k] : k \in 1..Len(xs)} :
     \A k \in 1..Len(xs) : ~RatLess(xs[k], x)

\* mutant: only the first entry is taken
RatProdFirst(xs) == xs[1]

\* np.array(...).prod()
RECURSIVE RatProd(_)
RatProd(xs) == IF xs = <<>> THEN RatOf(1) ELSE RatMul(xs[1], RatProd(Tail(xs)))

\* float_cmp(x, 0): |x - 0| <= atol + |0| * rtol, in units of atol
FloatCmpAtol == 1
FloatCmpZero(x) == RatLess(RatAbs(x), RatOf(FloatCmpAtol)) \/ RatAbs(x) = RatOf(FloatCmpAtol)

\* ------------------------------------------------------------------------
\* Parameters and parameter values
\* ------------------------------------------------------------------------
\* largest absolute value of a parameter component explored
MaxVal == 2
\* largest number of thetas of a min/max-theta functional explored
MaxThetas == 2

Values == (-MaxVal)..MaxVal
ParamNames == {"p", "q"}

\* a Parameters schema: a function from names to sizes
NoParameters == [n \in {} |-> 0]
Schema1(n, size) == [x \in {n} |-> size]

\* Parameters.of(a, b): the union of two schemas
MergeParameters(s1, s2) ==
  [n \in DOMAIN s1 \cup DOMAIN s2 |-> IF n \in DOMAIN s1 THEN s1[n] ELSE s2[n]]

\* mu = None
MuNone == [none |-> <<>>]

\* the parameter values explored: mu = None, {p: [a, b]}, {p: [a]}, {q: [a]}
\* the components of the parameter values with three components
Values3 == {-1, 0, 2}
Mus ==
  {MuNone}
    \cup {[n \in {"p"} |-> <<a, b>>] : a \in Values, b \in Values}
    \cup {[n \in {"p"} |-> <<a>>] : a \in Values}
    \cup {[n \in {"q"} |-> <<a>>] : a \in Values}
    \cup {[n \in {"p"} |-> <<a, b, c>>] : a \in Values3, b \in Values3, c \in Values3}

\* Parameters.assert_compatible(mu): mu holds every name of the schema with
\* the schema's size; None is valid only for the empty schema, and values
\* supplied where the schema is empty are an error
Compatible(schema, mu) ==
  IF DOMAIN schema = {} THEN mu = MuNone
  ELSE /\ mu # MuNone
       /\ \A n \in DOMAIN schema : n \in DOMAIN mu /\ Len(mu[n]) = schema[n]

\* ------------------------------------------------------------------------
\* Parameter functionals
\* ------------------------------------------------------------------------
\* a plain number among factors or thetas
Number(x) == [kind |-> "Number", value |-> x]

NoFunctional == [kind |-> "NoFunctional"]

\* an optional dict: None, or a dict
NoneDict == [isNone |-> TRUE, d |-> NoParameters]
Dict(d) == [isNone |-> FALSE, d |-> d]

\* ConstantParameterFunctional(constant_value, name), lines 306-308
ConstantParameterFunctional(constant_value, name) ==
  [kind |-> "Constant", constant_value |-> constant_value, name |-> name]

\* the effective parameters of a functional: parameters_own united with the
\* parameters of the functionals it holds
RECURSIVE ParametersOf(_)
RECURSIVE ParametersOfAll(_)
ParametersOfAll(fs) ==
  IF fs = <<>> THEN NoParameters
  ELSE MergeParameters(ParametersOf(fs[1]), ParametersOfAll(Tail(fs)))
ParametersOf(f) ==
  CASE f.kind = "Projection" -> Schema1(f.parameter, f.size)
    [] f.kind \in {"Generic", "Expression"} -> f.parameters
    [] f.kind = "Product" -> ParametersOfAll(f.factors)
    [] f.kind = "Conjugate" -> ParametersOf(f.functional)
    [] f.kind \in {"MinTheta", "MaxTheta"} -> ParametersOfAll(f.thetas)
    [] OTHER -> NoParameters

\* the outcome of a call: a value, or the exception raised
Ok(v) == [status |-> "ok", value |-> v, error |-> "none"]
Raise(e) == [status |-> "error", value |-> <<0, 1>>, error |-> e]
IsOk(x) == x.status = "ok"


\* mutant: the values at mu are not divided by the reference values
MinThetaValueNoReference(f, thetas_mu) ==
  IF \E k \in 1..Len(thetas_mu) : ~RatLess(RatOf(0), thetas_mu[k])
  THEN Raise("AssertionError")
  ELSE Ok(RatMul(RatOf(f.alpha_mu_bar), RatMin(thetas_mu)))

\* MinThetaParameterFunctional.evaluate, lines 372-374, on the values of
\* the thetas at mu
MinThetaValue(f, thetas_mu) ==
  IF \E k \in 1..Len(thetas_mu) : ~RatLess(RatOf(0), thetas_mu[k])
  THEN Raise("AssertionError")
  ELSE Ok(RatMul(RatOf(f.alpha_mu_bar),
                 RatMin([k \in 1..Len(thetas_mu) |->
                           RatDiv(thetas_mu[k], f.thetas_mu_bar[k])])))

\* MaxThetaParameterFunctional.evaluate, lines 438-440, on the values of
\* the thetas at mu
MaxThetaValue(f, thetas_mu) ==
  IF \E k \in 1..Len(thetas_mu) :
        ~(RatLess(thetas_mu[k], RatOf(0)) \/ RatLess(RatOf(0), thetas_mu[k]))
  THEN Raise("AssertionError")
  ELSE Ok(RatMul(RatOf(f.gamma_mu_bar),
                 RatAbs(RatMax([k \in 1..Len(thetas_mu) |->
                                  RatDiv(thetas_mu[k], f.thetas_mu_bar[k])]))))

\* mutant: the index is taken as counting from 1
ProjectionValueOneBased(f, mu) ==
  RatOf(mu[f.parameter][IF f.index = 0 THEN f.size ELSE f.index])

\* ProjectionParameterFunctional.evaluate, line 92:
\* mu[self.parameter].item(self.index), the index counting from 0
ProjectionValue(f, mu) == RatOf(mu[f.parameter][f.index + 1])

\* self.mapping(mu), line 132: the value of a callable at mu, left
\* uninterpreted
MappingValue(mapping, mu) == <<"value", mapping.path, mu>>

\* f.evaluate(mu), by the class of f
RECURSIVE Evaluate(_, _)
RECURSIVE EvaluateAll(_, _)
EvaluateAll(fs, mu) ==
  [k \in 1..Len(fs) |->
     IF fs[k].kind = "Number" THEN Ok(RatOf(fs[k].value)) ELSE Evaluate(fs[k], mu)]
Evaluate(f, mu) ==
  CASE f.kind = "Constant" -> Ok(RatOf(f.constant_value))
    [] f.kind = "Projection" ->
         IF ~Compatible(ParametersOf(f), mu) THEN Raise("AssertionError")
         ELSE Ok(ProjectionValue(f, mu))
    [] f.kind \in {"Generic", "Expression"} ->
         IF ~Compatible(ParametersOf(f), mu) THEN Raise("AssertionError")
         ELSE Ok(MappingValue(f.mapping, mu))
    [] f.kind = "Product" ->
         IF ~Compatible(ParametersOf(f), mu) THEN Raise("AssertionError")
         ELSE LET vs == EvaluateAll(f.factors, mu)
              IN  IF \E k \in 1..Len(vs) : ~IsOk(vs[k])
                  THEN vs[CHOOSE k \in 1..Len(vs) :
                            ~IsOk(vs[k]) /\ \A l \in 1..(k - 1) : IsOk(vs[l])]
                  ELSE Ok(RatProd([k \in 1..Len(vs) |-> vs[k].value]))
    [] f.kind = "Conjugate" ->
         IF ~Compatible(ParametersOf(f), mu) THEN Raise("AssertionError")
         ELSE Evaluate(f.functional, mu)
    [] f.kind \in {"MinTheta", "MaxTheta"} ->
         IF ~Compatible(ParametersOf(f), mu) THEN Raise("AssertionError")
         ELSE LET vs == EvaluateAll(f.thetas, mu)
              IN  IF \E k \in 1..Len(vs) : ~IsOk(vs[k])
                  THEN vs[CHOOSE k \in 1..Len(vs) :
                            ~IsOk(vs[k]) /\ \A l \in 1..(k - 1) : IsOk(vs[l])]
                  ELSE IF f.kind = "MinTheta"
                  THEN MinThetaValue(f, [k \in 1..Len(vs) |-> vs[k].value])
                  ELSE MaxThetaValue(f, [k \in 1..Len(vs) |-> vs[k].value])

\* ------------------------------------------------------------------------
\* Constructors
\* ------------------------------------------------------------------------
\* a Python argument that is None, and one that is a tuple
PyNone == [kind |-> "None", value |-> 0]
PyTuple == [kind |-> "Tuple", value |-> 0]

SelfName(f, suffix) == f.name \o <<suffix>>

\* ProjectionParameterFunctional.__init__, lines 80-88
ProjectionInit(parameter, size, index) ==
  IF size.kind # "Number" THEN Raise("AssertionError")
  ELSE LET idx == IF index.kind = "None" /\ size.value = 1 THEN Number(0) ELSE index
       IN  IF idx.kind # "Number" THEN Raise("AssertionError")
           ELSE IF ~(0 <= idx.value /\ idx.value < size.value)
           THEN Raise("AssertionError")
           ELSE Ok([kind |-> "Projection", parameter |-> parameter,
                    size |-> size.value, index |-> idx.value,
                    name |-> <<"ProjectionParameterFunctional">>])

\* GenericParameterFunctional.__init__, lines 126-128
GenericInit(mapping, parameters, name, derivative_mappings, second_derivative_mappings) ==
  [kind |-> "Generic", mapping |-> mapping, parameters |-> parameters,
   name |-> name, derivative_mappings |-> derivative_mappings,
   second_derivative_mappings |-> second_derivative_mappings]

\* an expression string, and the callable get_lambda makes of its code;
\* path names the expression: <<>> the functional itself, <<<<p, i>>>> its
\* derivative by component i of p, and so on
Str(path) == [path |-> path, compiled |-> FALSE]
Lambda(path) == [path |-> path, compiled |-> TRUE]

\* lines 220-221 and 234-235: compile(str(exp), ...) and get_lambda; the
\* text of a callable is no expression
CanCompile(exp) == ~exp.compiled
Compiled(exp) == Lambda(exp.path)

\* lines 216-223: the mappings of a dict of lists of expressions
CompileDict(d) == [key \in DOMAIN d |-> [k \in 1..Len(d[key]) |-> Compiled(d[key][k])]]
AllCompile(d) == \A key \in DOMAIN d : \A k \in 1..Len(d[key]) : CanCompile(d[key][k])

\* lines 227-238: the second derivatives, a dict of lists of dicts of lists
CompileSecond(d) ==
  [key_i \in DOMAIN d |-> [k \in 1..Len(d[key_i]) |-> CompileDict(d[key_i][k])]]
AllCompileSecond(d) ==
  \A key_i \in DOMAIN d : \A k \in 1..Len(d[key_i]) : AllCompile(d[key_i][k])

\* ExpressionParameterFunctional.__init__, lines 206-242.  The inner dicts
\* of second_derivative_expressions are the caller's objects and are
\* written to (line 237): after is the caller's
\* second_derivative_expressions once the constructor has run.
ExpressionInit(expression, parameters, derivative_expressions, second_derivative_expressions) ==
  IF ~CanCompile(expression)
  THEN [ret |-> Raise("SyntaxError"), after |-> second_derivative_expressions]
  ELSE IF ~derivative_expressions.isNone /\ ~AllCompile(derivative_expressions.d)
  THEN [ret |-> Raise("SyntaxError"), after |-> second_derivative_expressions]
  ELSE IF /\ ~second_derivative_expressions.isNone
          /\ ~AllCompileSecond(second_derivative_expressions.d)
  THEN [ret |-> Raise("SyntaxError"), after |-> second_derivative_expressions]
  ELSE LET after == IF second_derivative_expressions.isNone THEN NoneDict
                    ELSE Dict(CompileSecond(second_derivative_expressions.d))
       IN  [ret |-> Ok([kind |-> "Expression",
                        mapping |-> Compiled(expression),
                        parameters |-> parameters,
                        name |-> <<"ExpressionParameterFunctional">>,
                        derivative_mappings |->
                          IF derivative_expressions.isNone THEN NoneDict
                          ELSE Dict(CompileDict(derivative_expressions.d)),
                        second_derivative_mappings |-> after,
                        expression |-> expression,
                        derivative_expressions |-> derivative_expressions,
                        second_derivative_expressions |-> after]),
            after |-> after]

\* ProductParameterFunctional.__init__, lines 261-264
ProductInit(factors) ==
  IF Len(factors) = 0 THEN Raise("AssertionError")
  ELSE IF \E k \in 1..Len(factors) :
            factors[k].kind \in {"None", "Tuple", "NoFunctional"}
  THEN Raise("AssertionError")
  ELSE Ok([kind |-> "Product", factors |-> factors,
           name |-> <<"ProductParameterFunctional">>])

\* ConjugateParameterFunctional.__init__, lines 286-288
ConjugateInit(functional) ==
  [kind |-> "Conjugate", functional |-> functional,
   name |-> SelfName(functional, "_conj")]

\* lines 358-359 / 424-425: numbers among the thetas become constants
WrapThetas(thetas) ==
  [k \in 1..Len(thetas) |->
     IF thetas[k].kind = "Number"
     THEN ConstantParameterFunctional(thetas[k].value,
                                      <<"ConstantParameterFunctional">>)
     ELSE thetas[k]]

\* lines 355-363 / 421-429, shared by the two constructors: the checks of
\* thetas and mu_bar, and the values of the thetas at mu_bar
ThetasAtMuBar(thetas, mu_bar) ==
  IF Len(thetas) = 0 THEN Raise("AssertionError")
  ELSE IF \E k \in 1..Len(thetas) : thetas[k].kind \in {"None", "Tuple"}
  THEN Raise("AssertionError")
  ELSE IF ~Compatible(ParametersOfAll(WrapThetas(thetas)), mu_bar)
  THEN Raise("AssertionError")
  ELSE LET vs == EvaluateAll(WrapThetas(thetas), mu_bar)
       IN  IF \E k \in 1..Len(vs) : ~IsOk(vs[k])
           THEN Raise("AssertionError")
           ELSE Ok([k \in 1..Len(vs) |-> vs[k].value])

\* mutant: the reference values are only required to be nonzero
MinThetaInitNonzero(thetas, mu_bar, alpha_mu_bar) ==
  LET at == ThetasAtMuBar(thetas, mu_bar)
  IN  IF ~IsOk(at) THEN at
      ELSE IF \E k \in 1..Len(at.value) : at.value[k] = RatOf(0)
      THEN Raise("AssertionError")
      ELSE IF alpha_mu_bar.kind # "Number" THEN Raise("AssertionError")
      ELSE IF ~(alpha_mu_bar.value > 0) THEN Raise("AssertionError")
      ELSE Ok([kind |-> "MinTheta", thetas |-> WrapThetas(thetas),
               mu_bar |-> mu_bar, alpha_mu_bar |-> alpha_mu_bar.value,
               thetas_mu_bar |-> at.value,
               name |-> <<"MinThetaParameterFunctional">>])

\* MinThetaParameterFunctional.__init__, lines 354-368
MinThetaInit(thetas, mu_bar, alpha_mu_bar) ==
  LET at == ThetasAtMuBar(thetas, mu_bar)
  IN  IF ~IsOk(at) THEN at
      ELSE IF \E k \in 1..Len(at.value) : ~RatLess(RatOf(0), at.value[k])
      THEN Raise("AssertionError")
      ELSE IF alpha_mu_bar.kind # "Number" THEN Raise("AssertionError")
      ELSE IF ~(alpha_mu_bar.value > 0) THEN Raise("AssertionError")
      ELSE Ok([kind |-> "MinTheta", thetas |-> WrapThetas(thetas),
               mu_bar |-> mu_bar, alpha_mu_bar |-> alpha_mu_bar.value,
               thetas_mu_bar |-> at.value,
               name |-> <<"MinThetaParameterFunctional">>])

\* MaxThetaParameterFunctional.__init__, lines 420-434
MaxThetaInit(thetas, mu_bar, gamma_mu_bar) ==
  LET at == ThetasAtMuBar(thetas, mu_bar)
  IN  IF ~IsOk(at) THEN at
      ELSE IF \E k \in 1..Len(at.value) : FloatCmpZero(at.value[k])
      THEN Raise("AssertionError")
      ELSE IF gamma_mu_bar.kind # "Number" THEN Raise("AssertionError")
      ELSE IF ~(gamma_mu_bar.value > 0) THEN Raise("AssertionError")
      ELSE Ok([kind |-> "MaxTheta", thetas |-> WrapThetas(thetas),
               mu_bar |-> mu_bar, gamma_mu_bar |-> gamma_mu_bar.value,
               thetas_mu_bar |-> at.value,
               name |-> <<"MaxThetaParameterFunctional">>])

\* ------------------------------------------------------------------------
\* d_mu
\* ------------------------------------------------------------------------
\* ParameterFunctional.d_mu, lines 40-43
D_muBase(f, parameter, index) ==
  IF parameter \notin DOMAIN ParametersOf(f)
  THEN Ok(ConstantParameterFunctional(0, SelfName(f, "_d_mu")))
  ELSE Raise("NotImplementedError")

\* mutant: the parameter is not compared with the functional's own
D_muProjectionAnyParameter(f, parameter, index) ==
  IF ~(0 <= index /\ index < f.size) THEN Raise("AssertionError")
  ELSE IF index = f.index
  THEN Ok(ConstantParameterFunctional(1, SelfName(f, "_d_mu")))
  ELSE Ok(ConstantParameterFunctional(0, SelfName(f, "_d_mu")))

\* the same without the assertion on the index
D_muProjectionUnchecked(f, parameter, index) ==
  IF parameter = f.parameter /\ index = f.index
  THEN Ok(ConstantParameterFunctional(1, SelfName(f, "_d_mu")))
  ELSE Ok(ConstantParameterFunctional(0, SelfName(f, "_d_mu")))

\* ProjectionParameterFunctional.d_mu, lines 95-99
D_muProjection(f, parameter, index) ==
  IF parameter = f.parameter /\ ~(0 <= index /\ index < f.size)
  THEN Raise("AssertionError")
  ELSE IF parameter = f.parameter /\ index = f.index
  THEN Ok(ConstantParameterFunctional(1, SelfName(f, "_d_mu")))
  ELSE Ok(ConstantParameterFunctional(0, SelfName(f, "_d_mu")))

\* the same with a zero derivative where the mappings are missing
D_muGenericZeroWhenMissing(f, parameter, index) ==
  IF parameter \notin DOMAIN ParametersOf(f)
  THEN Ok(ConstantParameterFunctional(0, SelfName(f, "_d_mu")))
  ELSE IF ~(0 <= index /\ index < ParametersOf(f)[parameter])
  THEN Raise("AssertionError")
  ELSE IF f.derivative_mappings.isNone
  THEN Ok(ConstantParameterFunctional(0, SelfName(f, "_d_mu")))
  ELSE IF parameter \notin DOMAIN f.derivative_mappings.d
  THEN Ok(ConstantParameterFunctional(0, SelfName(f, "_d_mu")))
  ELSE IF index + 1 > Len(f.derivative_mappings.d[parameter])
  THEN Raise("IndexError")
  ELSE LET m == f.derivative_mappings.d[parameter][index + 1]
           name == SelfName(f, "_d_mu")
       IN  IF f.second_derivative_mappings.isNone
           THEN Ok(GenericInit(m, f.parameters, name, NoneDict, NoneDict))
           ELSE IF parameter \in DOMAIN f.second_derivative_mappings.d
           THEN IF index + 1 > Len(f.second_derivative_mappings.d[parameter])
                THEN Raise("IndexError")
                ELSE Ok(GenericInit(m, f.parameters, name,
                          Dict(f.second_derivative_mappings.d[parameter][index + 1]),
                          NoneDict))
           ELSE Ok(GenericInit(m, f.parameters, name, Dict(NoParameters), NoneDict))

\* GenericParameterFunctional.d_mu, lines 140-167
D_muGeneric(f, parameter, index) ==
  IF parameter \notin DOMAIN ParametersOf(f)
  THEN Ok(ConstantParameterFunctional(0, SelfName(f, "_d_mu")))
  ELSE IF ~(0 <= index /\ index < ParametersOf(f)[parameter])
  THEN Raise("AssertionError")
  ELSE IF f.derivative_mappings.isNone THEN Raise("ValueError")
  ELSE IF parameter \notin DOMAIN f.derivative_mappings.d THEN Raise("ValueError")
  ELSE IF index + 1 > Len(f.derivative_mappings.d[parameter])
  THEN Raise("IndexError")
  ELSE LET m == f.derivative_mappings.d[parameter][index + 1]
           name == SelfName(f, "_d_mu")
       IN  IF f.second_derivative_mappings.isNone
           THEN Ok(GenericInit(m, f.parameters, name, NoneDict, NoneDict))
           ELSE IF parameter \in DOMAIN f.second_derivative_mappings.d
           THEN IF index + 1 > Len(f.second_derivative_mappings.d[parameter])
                THEN Raise("IndexError")
                ELSE Ok(GenericInit(m, f.parameters, name,
                          Dict(f.second_derivative_mappings.d[parameter][index + 1]),
                          NoneDict))
           ELSE Ok(GenericInit(m, f.parameters, name, Dict(NoParameters), NoneDict))

\* ConstantParameterFunctional.d_mu, line 314
D_muConstant(f, parameter, index) ==
  Ok(ConstantParameterFunctional(0, SelfName(f, "_d_mu")))

\* f.d_mu(parameter, index), by the class of f
D_mu(f, parameter, index) ==
  CASE f.kind = "Projection" -> D_muProjection(f, parameter, index)
    [] f.kind \in {"Generic", "Expression"} -> D_muGeneric(f, parameter, index)
    [] f.kind = "Constant" -> D_muConstant(f, parameter, index)
    [] OTHER -> D_muBase(f, parameter, index)

\* ------------------------------------------------------------------------
\* VectorArray operations used by the solver
\* ------------------------------------------------------------------------
\* A vector of the arrays BBr2 / CTCr2 / rhs: column col of the array src,
\* negated or not, minus the corrections subtracted from it so far.
Vec(src, col) == [src |-> src, col |-> col, neg |-> FALSE, subs |-> <<>>]

\* -v : a new vector, the negation of v
NegVec(v) == [v EXCEPT !.neg = ~@]

\* arr.lincomb(coefs) with a coefficient vector, then op.apply or
\* op.apply_adjoint: one vector, recorded with the length of arr and the
\* Schur columns of its vectors at the time of the call.
Correction(op, adjoint, arr, coefs) ==
  [op |-> op, adjoint |-> adjoint, coefs |-> coefs, n |-> Len(arr),
   of |-> [k \in 1..Len(arr) |-> arr[k].rhs.col]]

\* target -= x, in place: the vector the reference points to is changed
ISub(h, ref, x) == [h EXCEPT ![ref.arr][ref.idx].subs = Append(@, x)]

\* the vector a reference points to
Deref(h, ref) == h[ref.arr][ref.idx]

\* arr.lincomb(M) for an r x r coefficient matrix M = conj(mat), with the
\* columns reversed or not: vector j of the result is
\* sum_k M[j, k] * arr[k].  Each term keeps its coefficient and the Schur
\* column of the vector it multiplies.
LincombMatrix(arr, mat, reversed, r, space) ==
  [j \in 1..r |->
     [space |-> space, real |-> FALSE,
      terms |-> [k \in 1..Len(arr) |->
                   [coef |-> Conjugate(Entry(mat, j - 1,
                                IF reversed THEN r - k ELSE k - 1)),
                    vec |-> arr[k].rhs.col]]]]

\* arr.real
RealPart(arr) == [j \in 1..Len(arr) |-> [arr[j] EXCEPT !.real = TRUE]]

\* ------------------------------------------------------------------------
\* solve_sylv_schur: the pieces of the function
\* ------------------------------------------------------------------------
\* lines 69-70: X is a linear operator with source == range
CheckSquareLinear(X) == X.kind = "Op" /\ X.linear /\ X.source = X.range

\* mutant: the comparison with Y.source is dropped
CheckOptionalOpNoSpace(X, Y) ==
  X = None \/ (X.kind = "Op" /\ X.linear /\ X.source = X.range)

\* lines 72 and 75: X is None, or linear with source == range == Y.source
CheckOptionalOp(X, Y) ==
  X = None \/ (X.kind = "Op" /\ X.linear /\ X.source = X.range
                 /\ X.range = Y.source)

\* mutant: "or" in place of "and"
ComputeVOr(b, br) == b # None \/ br # None

\* line 77
ComputeV(b, br) == b # None /\ br # None

\* mutant: Cr is not looked at
ComputeWIgnoresCr(c, cr) == c # None

\* line 78
ComputeW(c, cr) == c # None /\ cr # None

\* lines 84-86
CheckVArgs(b, br, a, ar) ==
  /\ b.kind = "Op" /\ b.linear /\ b.range = a.source
  /\ br.kind = "Op" /\ br.linear /\ br.range = ar.source
  /\ b.source = br.source

\* lines 89-91
CheckWArgs(c, cr, a, ar) ==
  /\ c.kind = "Op" /\ c.linear /\ c.source = a.source
  /\ cr.kind = "Op" /\ cr.linear /\ cr.source = ar.source
  /\ c.range = cr.range

\* mutant: the columns in ascending order, range(-r, 0)
VRangeAscending(r) == [k \in 1..r |-> k - 1 - r]

\* line 116: range(-1, -r - 1, -1)
VRange(r) == [k \in 1..r |-> -k]

\* line 135: range(r)
WRange(r) == [k \in 1..r |-> k - 1]

\* the positions selected by the slice [:stop:-1] of a container of length n
RevSlice(stop, n) == [k \in 1..(n - 1 - PyIdx(stop, n)) |-> n - k]

\* mutant: the slice taken forwards, T[i, :i].conjugate()
VCoefsForward(T, ii, r) ==
  [k \in 1..PyIdx(ii, r) |-> Conjugate(Entry(T, PyIdx(ii, r), k - 1))]

\* lines 120-121: T[i, :i:-1].conjugate()
VCoefs(T, ii, r) ==
  [k \in 1..Len(RevSlice(ii, r)) |->
     Conjugate(Entry(T, PyIdx(ii, r), RevSlice(ii, r)[k]))]

\* mutant: row i in place of column i, T[i, :i]
WCoefsRow(T, ii) == [k \in 1..ii |-> Entry(T, ii, k - 1)]

\* lines 139-140: T[:i, i]
WCoefs(T, ii) == [k \in 1..ii |-> Entry(T, k - 1, ii)]

\* mutant: the diagonal entries are not conjugated
ShiftCoefsNoConj(er, ii, r) ==
  LET TErii == IF er = None THEN One ELSE Entry("TEr", PyIdx(ii, r), PyIdx(ii, r))
  IN  <<TErii, Entry("TAr", PyIdx(ii, r), PyIdx(ii, r))>>

\* lines 122-123 and 141-142: the coefficients of LincombOperator([A, E], .)
ShiftCoefs(er, ii, r) ==
  LET TErii == IF er = None THEN One ELSE Entry("TEr", PyIdx(ii, r), PyIdx(ii, r))
  IN  <<Conjugate(TErii), Conjugate(Entry("TAr", PyIdx(ii, r), PyIdx(ii, r)))>>

\* mutant: rhs = X[i]; rhs.scal(-1), a view of the column, negated in place
RhsOfColumnInPlace(h, name, ii, r) ==
  [heap |-> [h EXCEPT ![name][PyIdx(ii, r) + 1] = NegVec(@)],
   ref |-> [arr |-> name, idx |-> PyIdx(ii, r) + 1]]

\* lines 117 and 136: rhs = -X[i].copy(), a new array of one vector
RhsOfColumn(h, name, ii, r) ==
  [heap |-> [h EXCEPT !["rhs"] = <<NegVec(h[name][PyIdx(ii, r) + 1])>>],
   ref |-> [arr |-> "rhs", idx |-> 1]]

\* lines 124 and 143: eAaE.apply_inverse(rhs) / eAaE.apply_inverse_adjoint(rhs)
\* for eAaE = LincombOperator([A, E], coefs); the solution lies in A.source
ApplyInverse(a, e, coefs, rhs, adjoint) ==
  [ops |-> <<a, e>>, coefs |-> coefs, rhs |-> rhs, adjoint |-> adjoint,
   space |-> a.source]

\* mutant: the test for V alone comes first
ReturnValueVFirst(cv, cw, v, w) ==
  IF cv THEN [kind |-> "V", V |-> v, W |-> <<>>]
  ELSE IF cv /\ cw THEN [kind |-> "pair", V |-> v, W |-> w]
  ELSE [kind |-> "W", V |-> <<>>, W |-> w]

\* lines 148-153
ReturnValue(cv, cw, v, w) ==
  IF cv /\ cw THEN [kind |-> "pair", V |-> v, W |-> w]
  ELSE IF cv THEN [kind |-> "V", V |-> v, W |-> <<>>]
  ELSE [kind |-> "W", V |-> <<>>, W |-> w]

NoResult == [kind |-> "none", V |-> <<>>, W |-> <<>>]
NoSchur == [TAr |-> "-", TEr |-> "-", Q |-> "-", Z |-> "-"]
NoConv == [Ar |-> FALSE, Er |-> FALSE, Br |-> FALSE, Cr |-> FALSE]
EmptyHeap == [BBr2 |-> <<>>, CTCr2 |-> <<>>, rhs |-> <<>>]
NoRef == [arr |-> "rhs", idx |-> 0]

\* ------------------------------------------------------------------------
\* Parameter functionals: the calls explored
\* ------------------------------------------------------------------------
\* longest chain of d_mu calls on the results of d_mu explored
MaxDerivs == 2

NoCall == [op |-> "none", args |-> <<>>]
NoRet == [status |-> "none", value |-> <<0, 1>>, error |-> "none"]
NoExprArgs == [supplied |-> <<>>, derivative_expressions |-> NoneDict,
               second_derivative_expressions |-> NoneDict]

SeqsUpTo(S, n) == UNION {[1..k -> S] : k \in 0..n}

P0 == ProjectionInit("p", Number(2), Number(0)).value
P1 == ProjectionInit("p", Number(2), Number(1)).value

\* the lists of thetas: projections of p and a number, and a list with an
\* entry that is neither a number nor a functional
ThetaLists == SeqsUpTo({P0, P1, Number(2)}, MaxThetas) \cup {<<P0, PyNone>>}
ThetaBounds == {Number(0), Number(2)}

\* the schemas, derivative dicts and second derivative dicts of the generic
\* and expression functionals explored; the entries are strings
\* (expression functionals) or callables (generic functionals)
Schemas == {Schema1("p", 2), MergeParameters(Schema1("p", 2), Schema1("q", 1))}
ExprOf(form, path) == IF form = "str" THEN Str(path) ELSE Lambda(path)
FirstDerivs(schema, keys, form) ==
  [n \in keys |-> [k \in 1..schema[n] |-> ExprOf(form, <<<<n, k - 1>>>>)]]
SecondDerivs(schema, keys, form) ==
  [n \in keys |->
     [k \in 1..schema[n] |->
        [n2 \in keys |->
           [k2 \in 1..schema[n2] |-> ExprOf(form, <<<<n, k - 1>>, <<n2, k2 - 1>>>>)]]]]
KeySets(schema) == {{}, {"p"}, DOMAIN schema}

\* ------------------------------------------------------------------------
\* The state of a Newton iteration before any call of newton
\* ------------------------------------------------------------------------
\* A non-negative real number is kept by its size class and, when it is
\* positive and finite, by its natural logarithm in thousandths.
NtZero == [kind |-> "zero", log |-> 0]
NtInf == [kind |-> "inf", log |-> 0]
Mag(l) == [kind |-> "pos", log |-> l]

NoNewton ==
  [pc |-> "idle", order |-> 0, U |-> NtZero, maxiter |-> 0,
   atol |-> NtZero, rtol |-> NtZero, stagnation_threshold |-> NtZero,
   iteration |-> 0, err |-> NtZero, err0 |-> NtZero, change |-> NtInf,
   error |-> "none", message |-> "none"]

\* ------------------------------------------------------------------------
\* The state of the test helpers before any of them is called
\* ------------------------------------------------------------------------
NoIndex == [gen |-> "none", len |-> 0, length |-> <<>>, ind |-> [kind |-> "None"]]

\* lines 136-137 of strategies.py: the list as the module defines it
PicklableTypes == <<"numpy", "numpy_list">>
NoVA == [picklable_only |-> FALSE, space_types |-> <<>>, calls |-> 0]
NoPlot == [n |-> 0, idx |-> 0, timestep |-> 0, mesh |-> 0, call |-> "none", arg |-> 0, error |-> "none"]

AuxInit ==
  /\ ix = NoIndex
  /\ picklable_vector_space_types = PicklableTypes
  /\ other_vector_space_types = <<>>
  /\ va = NoVA
  /\ plot = NoPlot

\* ------------------------------------------------------------------------
\* solve_sylv_schur: the call, step by step
\* ------------------------------------------------------------------------
SylvInit ==
  /\ A \in ACandidates /\ Ar \in ArCandidates
  /\ E \in ECandidates /\ Er \in ErCandidates
  /\ B \in BCandidates /\ Br \in BrCandidates
  /\ C \in CCandidates /\ Cr \in CrCandidates
  /\ rdim \in 1..MaxR
  /\ pc = "check_types"
  /\ error = "none"
  /\ Eloc = E
  /\ compute_V = FALSE /\ compute_W = FALSE
  /\ conv = NoConv
  /\ schur = NoSchur
  /\ heap = EmptyHeap
  /\ rhsRef = NoRef
  /\ i = 0 /\ it = 0
  /\ V = <<>> /\ W = <<>> /\ Vret = <<>> /\ Wret = <<>>
  /\ result = NoResult
  /\ calls = <<>>
  /\ fn = NoFunctional /\ fcall = NoCall /\ fret = NoRet /\ exprArgs = NoExprArgs
  /\ nt = NoNewton
  /\ AuxInit

\* lines 68-75
CheckTypes ==
  /\ pc = "check_types"
  /\ IF /\ CheckSquareLinear(A)
        /\ CheckSquareLinear(Ar)
        /\ CheckOptionalOp(E, A)
        /\ CheckOptionalOp(Er, Ar)
     THEN /\ Eloc' = IF E = None THEN IdentityOperator(A.source) ELSE E
          /\ pc' = "check_pairs"
          /\ error' = error
     ELSE /\ pc' = "failed"
          /\ error' = "AssertionError"
          /\ Eloc' = Eloc
  /\ UNCHANGED <<funcVars, newtVars, auxVars, argVars, compute_V, compute_W, conv, schur, heap, rhsRef,
                 i, it, V, W, Vret, Wret, result, calls>>

\* lines 77-91
CheckPairs ==
  /\ pc = "check_pairs"
  /\ compute_V' = ComputeV(B, Br)
  /\ compute_W' = ComputeW(C, Cr)
  /\ IF ~compute_V' /\ ~compute_W'
     THEN pc' = "failed" /\ error' = "ValueError"
     ELSE IF \/ compute_V' /\ ~CheckVArgs(B, Br, A, Ar)
             \/ compute_W' /\ ~CheckWArgs(C, Cr, A, Ar)
     THEN pc' = "failed" /\ error' = "AssertionError"
     ELSE pc' = "convert" /\ error' = error
  /\ UNCHANGED <<funcVars, newtVars, auxVars, argVars, Eloc, conv, schur, heap, rhsRef, i, it, V, W, Vret,
                 Wret, result, calls>>

\* lines 93-101; an object that is no operator has no as_source_array /
\* as_range_array
ConvertReduced ==
  /\ pc = "convert"
  /\ IF Br.kind = "NotOp"
     THEN /\ pc' = "failed" /\ error' = "AttributeError"
          /\ conv' = [conv EXCEPT !.Ar = TRUE, !.Er = (Er # None)]
          /\ calls' = calls \o <<"to_matrix">>
                        \o (IF Er # None THEN <<"to_matrix">> ELSE <<>>)
     ELSE IF Cr.kind = "NotOp"
     THEN /\ pc' = "failed" /\ error' = "AttributeError"
          /\ conv' = [conv EXCEPT !.Ar = TRUE, !.Er = (Er # None),
                                  !.Br = (Br # None)]
          /\ calls' = calls \o <<"to_matrix">>
                        \o (IF Er # None THEN <<"to_matrix">> ELSE <<>>)
                        \o (IF Br # None THEN <<"as_source_array">> ELSE <<>>)
     ELSE /\ pc' = "schur" /\ error' = error
          /\ conv' = [Ar |-> TRUE, Er |-> Er # None, Br |-> Br # None,
                      Cr |-> Cr # None]
          /\ calls' = calls \o <<"to_matrix">>
                        \o (IF Er # None THEN <<"to_matrix">> ELSE <<>>)
                        \o (IF Br # None THEN <<"as_source_array">> ELSE <<>>)
                        \o (IF Cr # None THEN <<"as_range_array">> ELSE <<>>)
  /\ UNCHANGED <<funcVars, newtVars, auxVars, argVars, Eloc, compute_V, compute_W, schur, heap,
                 rhsRef, i, it, V, W, Vret, Wret, result>>

\* lines 103-108
SchurDecomposition ==
  /\ pc = "schur"
  /\ IF Er = None
     THEN /\ schur' = [TAr |-> "TAr", TEr |-> "-", Q |-> "Z", Z |-> "Z"]
          /\ calls' = Append(calls, "schur")
     ELSE /\ schur' = [TAr |-> "TAr", TEr |-> "TEr", Q |-> "Q", Z |-> "Z"]
          /\ calls' = Append(calls, "qz")
  /\ pc' = IF compute_V THEN "start_V" ELSE "start_W"
  /\ UNCHANGED <<funcVars, newtVars, auxVars, argVars, error, Eloc, compute_V, compute_W, conv, heap,
                 rhsRef, i, it, V, W, Vret, Wret, result>>

\* lines 111-115
StartV ==
  /\ pc = "start_V"
  /\ V' = <<>>
  /\ heap' = [heap EXCEPT !["BBr2"] = [c \in 1..rdim |-> Vec("BBr2", c - 1)]]
  /\ calls' = calls \o <<"empty", "lincomb", "apply">>
  /\ it' = 0
  /\ pc' = "loop_V"
  /\ UNCHANGED <<funcVars, newtVars, auxVars, argVars, error, Eloc, compute_V, compute_W, conv, schur,
                 rhsRef, i, W, Vret, Wret, result>>

\* lines 116-124: one pass of the loop body
VColumn ==
  /\ pc = "loop_V"
  /\ it < Len(VRange(rdim))
  /\ LET ii == VRange(rdim)[it + 1]
         r0 == RhsOfColumn(heap, "BBr2", ii, rdim)
         h1 == IF ii < -1 /\ Er # None
               THEN ISub(r0.heap, r0.ref,
                         Correction("A", FALSE, V, VCoefs(schur.TEr, ii, rdim)))
               ELSE r0.heap
         h2 == IF ii < -1
               THEN ISub(h1, r0.ref,
                         Correction("E", FALSE, V, VCoefs(schur.TAr, ii, rdim)))
               ELSE h1
     IN  /\ i' = ii
         /\ heap' = h2
         /\ rhsRef' = r0.ref
         /\ V' = Append(V, ApplyInverse(A, Eloc, ShiftCoefs(Er, ii, rdim),
                                        Deref(h2, r0.ref), FALSE))
         /\ calls' = calls \o <<"copy">>
                       \o (IF ii < -1 /\ Er # None
                           THEN <<"lincomb", "apply">> ELSE <<>>)
                       \o (IF ii < -1 THEN <<"lincomb", "apply">> ELSE <<>>)
                       \o <<"apply_inverse", "append">>
  /\ it' = it + 1
  /\ UNCHANGED <<funcVars, newtVars, auxVars, argVars, pc, error, Eloc, compute_V, compute_W, conv, schur,
                 W, Vret, Wret, result>>

\* lines 126-127
FinishV ==
  /\ pc = "loop_V"
  /\ it >= Len(VRange(rdim))
  /\ Vret' = RealPart(LincombMatrix(V, schur.Z, TRUE, rdim, A.source))
  /\ calls' = calls \o <<"lincomb", "real">>
  /\ pc' = IF compute_W THEN "start_W" ELSE "return"
  /\ UNCHANGED <<funcVars, newtVars, auxVars, argVars, error, Eloc, compute_V, compute_W, conv, schur,
                 heap, rhsRef, i, it, V, W, Wret, result>>

\* lines 130-134
StartW ==
  /\ pc = "start_W"
  /\ W' = <<>>
  /\ heap' = [heap EXCEPT !["CTCr2"] = [c \in 1..rdim |-> Vec("CTCr2", c - 1)]]
  /\ calls' = calls \o <<"empty", "lincomb", "apply_adjoint">>
  /\ it' = 0
  /\ pc' = "loop_W"
  /\ UNCHANGED <<funcVars, newtVars, auxVars, argVars, error, Eloc, compute_V, compute_W, conv, schur,
                 rhsRef, i, V, Vret, Wret, result>>

\* lines 135-143: one pass of the loop body
WColumn ==
  /\ pc = "loop_W"
  /\ it < Len(WRange(rdim))
  /\ LET ii == WRange(rdim)[it + 1]
         r0 == RhsOfColumn(heap, "CTCr2", ii, rdim)
         h1 == IF ii > 0 /\ Er # None
               THEN ISub(r0.heap, r0.ref,
                         Correction("A", TRUE, W, WCoefs(schur.TEr, ii)))
               ELSE r0.heap
         h2 == IF ii > 0
               THEN ISub(h1, r0.ref,
                         Correction("E", TRUE, W, WCoefs(schur.TAr, ii)))
               ELSE h1
     IN  /\ i' = ii
         /\ heap' = h2
         /\ rhsRef' = r0.ref
         /\ W' = Append(W, ApplyInverse(A, Eloc, ShiftCoefs(Er, ii, rdim),
                                        Deref(h2, r0.ref), TRUE))
         /\ calls' = calls \o <<"copy">>
                       \o (IF ii > 0 /\ Er # None
                           THEN <<"lincomb", "apply_adjoint">> ELSE <<>>)
                       \o (IF ii > 0 THEN <<"lincomb", "apply_adjoint">> ELSE <<>>)
                       \o <<"apply_inverse_adjoint", "append">>
  /\ it' = it + 1
  /\ UNCHANGED <<funcVars, newtVars, auxVars, argVars, pc, error, Eloc, compute_V, compute_W, conv, schur,
                 V, Vret, Wret, result>>

\* lines 145-146
FinishW ==
  /\ pc = "loop_W"
  /\ it >= Len(WRange(rdim))
  /\ Wret' = RealPart(LincombMatrix(W, schur.Q, FALSE, rdim, A.source))
  /\ calls' = calls \o <<"lincomb", "real">>
  /\ pc' = "return"
  /\ UNCHANGED <<funcVars, newtVars, auxVars, argVars, error, Eloc, compute_V, compute_W, conv, schur,
                 heap, rhsRef, i, it, V, W, Vret, result>>

\* lines 148-153
Return ==
  /\ pc = "return"
  /\ result' = ReturnValue(compute_V, compute_W, Vret, Wret)
  /\ pc' = "done"
  /\ UNCHANGED <<funcVars, newtVars, auxVars, argVars, error, Eloc, compute_V, compute_W, conv, schur,
                 heap, rhsRef, i, it, V, W, Vret, Wret, calls>>

SylvNext ==
  \/ CheckTypes
  \/ CheckPairs
  \/ ConvertReduced
  \/ SchurDecomposition
  \/ StartV
  \/ VColumn
  \/ FinishV
  \/ StartW
  \/ WColumn
  \/ FinishW
  \/ Return

Init == SylvInit
Next == SylvNext
Spec == Init /\ [][Next]_vars

\* ------------------------------------------------------------------------
\* solve_sylv_schur: the spaces and lengths of the arrays each step works on
\* ------------------------------------------------------------------------
\* the dimension of a vector space: "r" is the reduced space, of dimension
\* r = Ar.shape[0]; the other spaces are larger and differ from each other
SpaceDim(space) ==
  IF space = "r" THEN rdim ELSE IF space = "m" THEN MaxR + 1 ELSE MaxR + 2

\* a VectorArray by its space and its length
TArr(space, len) == [space |-> space, len |-> len]
\* one operation with the condition under which it does not fail
Operation(name, ok) == [op |-> name, ok |-> ok]

\* lines 98-99 and 100-101
AsSourceArray(op) == TArr(op.source, SpaceDim(op.range))
AsRangeArray(op) == TArr(op.range, SpaceDim(op.source))

\* lines 113-114 and 132-133: X.lincomb(M.T) for the r x r matrix M, then
\* B.apply or C.apply_adjoint
TransformOperations(arr, needed) ==
  {Operation("lincomb", rdim = arr.len),
   Operation("apply", arr.space = needed)}

\* lines 117-124 and 136-143: one pass of a loop on column ii of the array
\* cols, with the vectors solved so far in solved and the coefficient
\* vectors coefsA (used when Er is given) and coefsE
ColumnOperations(cols, ii, solved, corrected, coefsA, coefsE) ==
  LET rhs == TArr(cols.space, 1)
      sol == TArr(A.source, Len(solved))
      viaA == {Operation("lincomb", Len(coefsA) = sol.len),
               Operation("apply", sol.space = A.source),
               Operation("isub", A.range = rhs.space)}
      viaE == {Operation("lincomb", Len(coefsE) = sol.len),
               Operation("apply", sol.space = Eloc.source),
               Operation("isub", Eloc.range = rhs.space)}
  IN {Operation("getitem", -cols.len <= ii /\ ii < cols.len)}
     \cup (IF corrected /\ Er # None THEN viaA ELSE {})
     \cup (IF corrected THEN viaE ELSE {})
     \cup {Operation("LincombOperator", Eloc.source = A.source /\ Eloc.range = A.range),
           Operation("apply_inverse", rhs.space = A.source /\ rhs.len = 1),
           Operation("append", \A k \in 1..Len(solved) : solved[k].space = A.source)}

\* lines 126 and 145: the back transformation with an r x r matrix
BackOperations(solved) == {Operation("lincomb", rdim = Len(solved))}

\* the operations of the step the call is about to take
SylvOperations ==
  IF pc = "start_V"
  THEN TransformOperations(AsSourceArray(Br), B.source)
  ELSE IF pc = "loop_V" /\ it < Len(VRange(rdim))
  THEN LET ii == VRange(rdim)[it + 1]
       IN ColumnOperations(TArr(B.range, rdim), ii, V, ii < -1,
                           IF Er # None THEN VCoefs(schur.TEr, ii, rdim) ELSE <<>>,
                           VCoefs(schur.TAr, ii, rdim))
  ELSE IF pc = "loop_V"
  THEN BackOperations(V)
  ELSE IF pc = "start_W"
  THEN TransformOperations(AsRangeArray(Cr), C.range)
  ELSE IF pc = "loop_W" /\ it < Len(WRange(rdim))
  THEN LET ii == WRange(rdim)[it + 1]
       IN ColumnOperations(TArr(C.source, rdim), ii, W, ii > 0,
                           IF Er # None THEN WCoefs(schur.TEr, ii) ELSE <<>>,
                           WCoefs(schur.TAr, ii))
  ELSE IF pc = "loop_W"
  THEN BackOperations(W)
  ELSE {}

\* ------------------------------------------------------------------------
\* Parameter functionals: construction and calls
\* ------------------------------------------------------------------------
FuncInit ==
  /\ A = None /\ Ar = None /\ E = None /\ Er = None
  /\ B = None /\ Br = None /\ C = None /\ Cr = None
  /\ rdim = 1
  /\ pc = "idle"
  /\ error = "none"
  /\ Eloc = None
  /\ compute_V = FALSE /\ compute_W = FALSE
  /\ conv = NoConv
  /\ schur = NoSchur
  /\ heap = EmptyHeap
  /\ rhsRef = NoRef
  /\ i = 0 /\ it = 0
  /\ V = <<>> /\ W = <<>> /\ Vret = <<>> /\ Wret = <<>>
  /\ result = NoResult
  /\ calls = <<>>
  /\ fn = NoFunctional /\ fcall = NoCall /\ fret = NoRet /\ exprArgs = NoExprArgs
  /\ nt = NoNewton
  /\ AuxInit

\* the outcome of a constructor call
Constructed(op, args, ret) ==
  /\ fcall' = [op |-> op, args |-> args]
  /\ fret' = ret
  /\ fn' = IF IsOk(ret) THEN ret.value ELSE fn

ConstructProjection ==
  /\ fcall.op = "none"
  /\ \E parameter \in ParamNames, size \in {Number(1), Number(2), Number(3), PyTuple},
     index \in {PyNone, Number(0), Number(1), Number(2)} :
     /\ Constructed("ProjectionParameterFunctional", <<parameter, size, index>>,
                    ProjectionInit(parameter, size, index))
     /\ UNCHANGED <<sylvVars, newtVars, auxVars, exprArgs>>

ConstructConstant ==
  /\ fcall.op = "none"
  /\ \E c \in Values :
     /\ Constructed("ConstantParameterFunctional", <<c>>,
                    Ok(ConstantParameterFunctional(c, <<"ConstantParameterFunctional">>)))
     /\ UNCHANGED <<sylvVars, newtVars, auxVars, exprArgs>>

ConstructGeneric ==
  /\ fcall.op = "none"
  /\ \E schema \in Schemas :
    \E k1 \in KeySets(schema) \cup {{"None"}}, k2 \in KeySets(schema) \cup {{"None"}} :
     LET d1 == IF k1 = {"None"} THEN NoneDict ELSE Dict(FirstDerivs(schema, k1, "lambda"))
         d2 == IF k2 = {"None"} THEN NoneDict ELSE Dict(SecondDerivs(schema, k2, "lambda"))
     IN  /\ Constructed("GenericParameterFunctional", <<schema, d1, d2>>,
                        Ok(GenericInit(Lambda(<<>>), schema,
                                       <<"GenericParameterFunctional">>, d1, d2)))
         /\ UNCHANGED <<sylvVars, newtVars, auxVars, exprArgs>>

ConstructExpression ==
  /\ fcall.op = "none"
  /\ \E schema \in Schemas :
    \E k1 \in KeySets(schema) \cup {{"None"}}, k2 \in KeySets(schema) \cup {{"None"}} :
     LET d1 == IF k1 = {"None"} THEN NoneDict ELSE Dict(FirstDerivs(schema, k1, "str"))
         d2 == IF k2 = {"None"} THEN NoneDict ELSE Dict(SecondDerivs(schema, k2, "str"))
         made == ExpressionInit(Str(<<>>), schema, d1, d2)
     IN  /\ Constructed("ExpressionParameterFunctional", <<schema, d1, d2>>, made.ret)
         /\ exprArgs' = [supplied |-> <<Str(<<>>), schema, PyNone, d1, d2>>,
                         derivative_expressions |-> d1,
                         second_derivative_expressions |-> made.after]
         /\ UNCHANGED <<sylvVars, newtVars, auxVars>>

ConstructProduct ==
  /\ fcall.op = "none"
  /\ \E factors \in SeqsUpTo({P0, P1, Number(2), Number(-1), PyNone}, 2) :
     /\ Constructed("ProductParameterFunctional", <<factors>>, ProductInit(factors))
     /\ UNCHANGED <<sylvVars, newtVars, auxVars, exprArgs>>

ConstructMinTheta ==
  /\ fcall.op = "none"
  /\ \E thetas \in ThetaLists, mu_bar \in Mus, alpha_mu_bar \in ThetaBounds :
     /\ Constructed("MinThetaParameterFunctional", <<thetas, mu_bar, alpha_mu_bar>>,
                    MinThetaInit(thetas, mu_bar, alpha_mu_bar))
     /\ UNCHANGED <<sylvVars, newtVars, auxVars, exprArgs>>

ConstructMaxTheta ==
  /\ fcall.op = "none"
  /\ \E thetas \in ThetaLists, mu_bar \in Mus, gamma_mu_bar \in ThetaBounds :
     /\ Constructed("MaxThetaParameterFunctional", <<thetas, mu_bar, gamma_mu_bar>>,
                    MaxThetaInit(thetas, mu_bar, gamma_mu_bar))
     /\ UNCHANGED <<sylvVars, newtVars, auxVars, exprArgs>>

LeafKinds == {"Projection", "Constant", "Generic", "Expression"}

\* ConjugateParameterFunctional(fn)
ConstructConjugate ==
  /\ fn.kind \in LeafKinds \cup {"Product"}
  /\ fcall.op \notin {"none", "ConjugateParameterFunctional", "__mul__", "__rmul__", "__neg__"}
  /\ fret.status = "ok" /\ fret.value = fn
  /\ fcall' = [op |-> "ConjugateParameterFunctional", args |-> <<fn>>]
  /\ fn' = ConjugateInit(fn)
  /\ fret' = Ok(fn')
  /\ UNCHANGED <<sylvVars, newtVars, auxVars, exprArgs>>

\* ParameterFunctional.__mul__ / __rmul__, lines 48-54
MulResult(self, other) ==
  IF other.kind \in {"None", "Tuple"} THEN Raise("TypeError")
  ELSE ProductInit(<<self, other>>)

Mul ==
  /\ fn.kind \in LeafKinds
  /\ fcall.op \notin {"none", "ConjugateParameterFunctional", "__mul__", "__rmul__", "__neg__"}
  /\ fret.status = "ok" /\ fret.value = fn
  /\ \E other \in {Number(2), P1, PyNone} :
        /\ fcall' = [op |-> "__mul__", args |-> <<fn, other>>]
        /\ fret' = MulResult(fn, other)
        /\ fn' = IF IsOk(fret') THEN fret'.value ELSE fn
  /\ UNCHANGED <<sylvVars, newtVars, auxVars, exprArgs>>

\* number * fn: the number cannot multiply, so fn.__rmul__(number), line 54
RMul ==
  /\ fn.kind \in LeafKinds
  /\ fcall.op \notin {"none", "ConjugateParameterFunctional", "__mul__", "__rmul__", "__neg__"}
  /\ fret.status = "ok" /\ fret.value = fn
  /\ \E other \in {Number(2), Number(-1)} :
        /\ fcall' = [op |-> "__rmul__", args |-> <<fn, other>>]
        /\ fret' = MulResult(fn, other)
        /\ fn' = IF IsOk(fret') THEN fret'.value ELSE fn
  /\ UNCHANGED <<sylvVars, newtVars, auxVars, exprArgs>>

\* ParameterFunctional.__neg__, lines 56-57
Neg ==
  /\ fn.kind \in LeafKinds
  /\ fcall.op \notin {"none", "ConjugateParameterFunctional", "__mul__", "__rmul__", "__neg__"}
  /\ fret.status = "ok" /\ fret.value = fn
  /\ fcall' = [op |-> "__neg__", args |-> <<fn>>]
  /\ fret' = MulResult(fn, Number(-1))
  /\ fn' = fret'.value
  /\ UNCHANGED <<sylvVars, newtVars, auxVars, exprArgs>>

\* fn.evaluate(mu)
CallEvaluate ==
  /\ fcall.op \notin {"evaluate", "d_mu"}
  /\ fn.kind \in {"Projection", "Constant", "Generic", "Expression", "Product",
                  "Conjugate", "MinTheta", "MaxTheta"}
  /\ fn.kind = "Conjugate" => fn.functional.kind \notin {"Generic", "Expression"}
  /\ fn.kind = "Product" => fn.factors[1].kind \notin {"Generic", "Expression"}
  /\ \E mu \in Mus :
        /\ fcall' = [op |-> "evaluate", args |-> <<mu>>]
        /\ fret' = Evaluate(fn, mu)
  /\ UNCHANGED <<sylvVars, newtVars, auxVars, fn, exprArgs>>

\* fn.d_mu(parameter, index)
CallD_mu ==
  /\ fcall.op \notin {"evaluate", "d_mu"}
  /\ fn.kind # "NoFunctional"
  /\ \E parameter \in ParamNames \cup {"z"}, index \in 0..2 :
        /\ fcall' = [op |-> "d_mu", args |-> <<parameter, index>>]
        /\ fret' = D_mu(fn, parameter, index)
  /\ UNCHANGED <<sylvVars, newtVars, auxVars, fn, exprArgs>>

\* the result of d_mu becomes the functional at hand
TakeDerivative ==
  /\ fcall.op = "d_mu" /\ IsOk(fret)
  /\ Len(fret.value.name) <= 1 + MaxDerivs
  /\ fn' = fret.value
  /\ fcall' = [op |-> "taken", args |-> <<>>]
  /\ fret' = Ok(fn')
  /\ UNCHANGED <<sylvVars, newtVars, auxVars, exprArgs>>

\* ExpressionParameterFunctional.functions, lines 197-204: the names taken
\* from numpy, norm, polar, and the numpy module itself under the name np
NumpyNames ==
  {"sin", "cos", "tan", "arcsin", "arccos", "arctan", "arctan2",
   "sinh", "cosh", "tanh", "arcsinh", "arccosh", "arctanh",
   "exp", "exp2", "log", "log2", "log10", "sqrt", "array",
   "min", "minimum", "max", "maximum", "pi", "e",
   "sum", "prod", "abs", "sign", "zeros", "ones"}
functions ==
  [k \in NumpyNames \cup {"norm", "polar", "np"} |->
     IF k = "np" THEN [kind |-> "module", name |-> "numpy"]
     ELSE [kind |-> "numeric", name |-> k]]

\* the names eval finds in the builtins it adds to the globals it is given
Builtins == {"__import__", "open"}

\* eval(exp_code, functions, mu), line 212, on a name of the expression: the
\* locals mu first, then the globals functions, then the builtins
EvalName(name, mu) ==
  IF mu # MuNone /\ name \in DOMAIN mu THEN Ok([kind |-> "parameter", name |-> name])
  ELSE IF name \in DOMAIN functions THEN Ok(functions[name])
  ELSE IF name \in Builtins THEN Ok([kind |-> "builtin", name |-> name])
  ELSE Raise("NameError")

\* eval on name.attr: the attributes of a module are whatever it holds
EvalAttribute(name, attr, mu) ==
  LET obj == EvalName(name, mu)
  IN  IF ~IsOk(obj) THEN obj
      ELSE IF obj.value.kind = "module"
      THEN Ok([kind |-> "attribute", name |-> <<obj.value.name, attr>>])
      ELSE Raise("AttributeError")

\* the names and attributes the expressions explored refer to
ExprNames == ParamNames \cup {"sin", "norm", "np", "__import__", "os"}
ExprAttrs == {"sin", "load"}

\* within fn.evaluate(mu): the expression refers to name, or to name.attr
EvalExpression ==
  /\ fn.kind = "Expression"
  /\ fcall.op \notin {"evaluate", "d_mu", "eval", "__reduce__", "reconstruct"}
  /\ \E mu \in Mus, name \in ExprNames, attr \in ExprAttrs \cup {"-"} :
        /\ Compatible(ParametersOf(fn), mu)
        /\ fcall' = [op |-> "eval", args |-> <<name, attr, mu>>]
        /\ fret' = IF attr = "-" THEN EvalName(name, mu)
                   ELSE EvalAttribute(name, attr, mu)
  /\ UNCHANGED <<sylvVars, newtVars, auxVars, fn, exprArgs>>

\* ExpressionParameterFunctional.__reduce__, lines 244-247: the arguments
\* the constructor is to be called with (the name was not given: None)
Reduce(f) ==
  <<f.expression, f.parameters, PyNone, f.derivative_expressions,
    f.second_derivative_expressions>>

\* fn.__reduce__()
CallReduce ==
  /\ fn.kind = "Expression"
  /\ fcall.op \notin {"__reduce__", "reconstruct"}
  /\ fcall' = [op |-> "__reduce__", args |-> <<>>]
  /\ fret' = Ok(Reduce(fn))
  /\ UNCHANGED <<sylvVars, newtVars, auxVars, fn, exprArgs>>

\* the constructor applied to what __reduce__ returned (unpickling)
Reconstruct ==
  /\ fcall.op = "__reduce__"
  /\ fcall' = [op |-> "reconstruct", args |-> fret.value]
  /\ fret' = ExpressionInit(fret.value[1], fret.value[2], fret.value[4],
                            fret.value[5]).ret
  /\ UNCHANGED <<sylvVars, newtVars, auxVars, fn, exprArgs>>

\* pymortests/fixtures/operator.py, line 293
num_misc_operators == 12

\* misc_operator_with_arrays_and_products_factory, lines 296-329 and on:
\* the cases 5 <= n <= 7 construct ProjectionParameterFunctional('x', ())
\* before the SelectionOperator; the other cases construct no functional
MiscOperatorFactory ==
  /\ fcall.op = "none"
  /\ \E n \in 0..(num_misc_operators - 1) :
       LET functional == IF 5 <= n /\ n <= 7
                         THEN ProjectionInit("x", PyTuple, PyNone)
                         ELSE Ok(PyNone)
       IN  /\ fcall' = [op |-> "misc_operator_factory", args |-> <<n>>]
           /\ fret' = IF IsOk(functional)
                      THEN Ok([kind |-> "Operator", value |-> n])
                      ELSE functional
  /\ UNCHANGED <<sylvVars, newtVars, auxVars, fn, exprArgs>>

FuncNext ==
  \/ MiscOperatorFactory
  \/ ConstructProjection
  \/ ConstructConstant
  \/ ConstructGeneric
  \/ ConstructExpression
  \/ ConstructProduct
  \/ ConstructMinTheta
  \/ ConstructMaxTheta
  \/ ConstructConjugate
  \/ Mul
  \/ RMul
  \/ Neg
  \/ CallEvaluate
  \/ CallD_mu
  \/ TakeDerivative
  \/ EvalExpression
  \/ CallReduce
  \/ Reconstruct

SpecFunctionals == FuncInit /\ [][FuncNext]_vars

\* ------------------------------------------------------------------------
\* Newton iteration on the monomial residual f(x) = x^order
\* (pymor.algorithms.newton and MonomOperator are called by
\* pymortests/algorithms/stuff.py; the algorithm follows section 4.5 of
\* the specification)
\* ------------------------------------------------------------------------
\* 1000 * ln(n), rounded, for n = 1..7
LogTable == <<0, 693, 1099, 1386, 1609, 1792, 1946>>
LogInt(n) == LogTable[n]

NtLeq(a, b) ==
  \/ a.kind = "zero"
  \/ b.kind = "inf"
  \/ a.kind = "pos" /\ b.kind = "pos" /\ a.log <= b.log
NtLess(a, b) == ~NtLeq(b, a)
NtTimes(a, b) ==
  IF a.kind = "zero" \/ b.kind = "zero" THEN NtZero
  ELSE IF a.kind = "inf" \/ b.kind = "inf" THEN NtInf
  ELSE Mag(a.log + b.log)
NtPower(x, n) ==
  IF n = 0 THEN Mag(0)
  ELSE IF x.kind = "zero" THEN NtZero
  ELSE Mag(n * x.log)

\* the orders the tests use: 0 (test_newton_fail) and range(1, 8)
MaxOrder == 7
\* maxiter=10 of test_newton_fail
IterationCap == 10
\* the largest maxiter tried
NewtonMaxiter == 40

Orders == 0..MaxOrder
InitialValues == {Mag(0), NtZero}
Maxiters == {0, 2, IterationCap, NewtonMaxiter}
\* tolerances are small numbers: 0 (never met by a positive residual),
\* 1e-15 (atol of test_newton) and 1e-3
Atols == {NtZero, Mag(-34539)}
Rtols == {NtZero, Mag(-6908)}
\* 0 (no step is below it), about 0.37, and np.inf (every step is below it)
StagnationThresholds == {NtZero, Mag(-1000), NtInf}

\* |rhs - f(U)| with rhs = 0 and f(x) = x^order
ResidualNorm(order, U) == NtPower(U, order)
\* f'(x) = order * x^(order - 1) is zero for order 0, and at x = 0 for order >= 2
Singular(order, U) == order = 0 \/ (order >= 2 /\ U.kind = "zero")
\* the Jacobian's apply_inverse on the residual: the size of J(U)^{-1} r(U) = U / order
InvertAcceptingSingular(order, U) ==
  IF Singular(order, U) THEN Ok(NtZero)
  ELSE Ok(NtTimes(U, Mag(-LogInt(order))))
JacobianApplyInverse(order, U) ==
  IF Singular(order, U) THEN Raise("InversionError")
  ELSE Ok(NtTimes(U, Mag(-LogInt(order))))
\* U - c for a correction c = U / k
NtMinus(U, c) ==
  IF c.kind = "zero" THEN U
  ELSE IF c.log = U.log THEN NtZero
  ELSE LET k == CHOOSE k \in 2..MaxOrder : LogInt(k) = U.log - c.log
       IN Mag(U.log + LogInt(k - 1) - LogInt(k))
\* |U_{k+1} - U_k| / |U_k|
RelativeChange(U, c) ==
  IF c.kind = "zero" THEN NtZero ELSE Mag(c.log - U.log)

NewtInit ==
  /\ A = None /\ Ar = None /\ E = None /\ Er = None
  /\ B = None /\ Br = None /\ C = None /\ Cr = None
  /\ rdim = 1
  /\ pc = "idle"
  /\ error = "none"
  /\ Eloc = None
  /\ compute_V = FALSE /\ compute_W = FALSE
  /\ conv = NoConv
  /\ schur = NoSchur
  /\ heap = EmptyHeap
  /\ rhsRef = NoRef
  /\ i = 0 /\ it = 0
  /\ V = <<>> /\ W = <<>> /\ Vret = <<>> /\ Wret = <<>>
  /\ result = NoResult
  /\ calls = <<>>
  /\ fn = NoFunctional /\ fcall = NoCall /\ fret = NoRet /\ exprArgs = NoExprArgs
  /\ nt = NoNewton
  /\ AuxInit

\* newton(MonomOperator(order), rhs, initial_guess=guess, **kwargs):
\* the initial residual is computed before the loop
CallNewton ==
  /\ nt.pc = "idle"
  /\ \E order \in Orders, guess \in InitialValues, maxiter \in Maxiters,
        atol \in Atols, rtol \in Rtols, threshold \in StagnationThresholds :
       nt' = [NoNewton EXCEPT
                !.pc = "check", !.order = order, !.U = guess,
                !.maxiter = maxiter, !.atol = atol, !.rtol = rtol,
                !.stagnation_threshold = threshold,
                !.err = ResidualNorm(order, guess),
                !.err0 = ResidualNorm(order, guess)]
  /\ UNCHANGED <<sylvVars, funcVars, auxVars>>

\* the same test with strict comparisons
ConvergedStrict(n) ==
  \/ NtLess(n.err, n.atol)
  \/ NtLess(n.err, NtTimes(n.rtol, n.err0))
\* residual norm <= atol, or <= rtol * initial residual norm
Converged(n) ==
  \/ NtLeq(n.err, n.atol)
  \/ NtLeq(n.err, NtTimes(n.rtol, n.err0))
\* the relative change of the last step is below the stagnation threshold
Stagnated(n) ==
  n.iteration >= 1 /\ NtLess(n.change, n.stagnation_threshold)

NewtonReturn ==
  /\ nt.pc = "check"
  /\ Converged(nt)
  /\ nt' = [nt EXCEPT !.pc = "returned"]
  /\ UNCHANGED <<sylvVars, funcVars, auxVars>>

FailMaxiter ==
  /\ nt.pc = "check"
  /\ ~Converged(nt)
  /\ nt.iteration >= nt.maxiter
  /\ nt' = [nt EXCEPT !.pc = "raised", !.error = "NewtonError",
                      !.message = "Failed to converge"]
  /\ UNCHANGED <<sylvVars, funcVars, auxVars>>

\* stagnation taken for success: the iterate is returned
ReturnStagnated ==
  /\ nt.pc = "check"
  /\ ~Converged(nt)
  /\ Stagnated(nt)
  /\ nt' = [nt EXCEPT !.pc = "returned"]
  /\ UNCHANGED <<sylvVars, funcVars, auxVars>>

FailStagnation ==
  /\ nt.pc = "check"
  /\ ~Converged(nt)
  /\ Stagnated(nt)
  /\ nt' = [nt EXCEPT !.pc = "raised", !.error = "NewtonError",
                      !.message = "Error is stagnating"]
  /\ UNCHANGED <<sylvVars, funcVars, auxVars>>

\* one step: invert the Jacobian on the residual, then update the iterate
NewtonStep ==
  /\ nt.pc = "check"
  /\ ~Converged(nt)
  /\ nt.iteration < nt.maxiter
  /\ ~Stagnated(nt)
  /\ LET inv == JacobianApplyInverse(nt.order, nt.U)
         Unew == NtMinus(nt.U, inv.value)
     IN \/ /\ ~IsOk(inv)
           /\ nt' = [nt EXCEPT !.pc = "raised", !.error = "NewtonError",
                               !.iteration = @ + 1,
                               !.message = "Could not invert jacobian"]
        \/ /\ IsOk(inv)
           /\ nt' = [nt EXCEPT !.iteration = @ + 1,
                               !.U = Unew,
                               !.err = ResidualNorm(nt.order, Unew),
                               !.change = RelativeChange(nt.U, inv.value)]
  /\ UNCHANGED <<sylvVars, funcVars, auxVars>>

NewtNext ==
  \/ CallNewton
  \/ NewtonReturn
  \/ FailMaxiter
  \/ FailStagnation
  \/ NewtonStep

\* a call that has started runs on: every step of the loop is taken in turn
SpecNewton == NewtInit /\ [][NewtNext]_vars /\ WF_vars(NewtNext)

\* ------------------------------------------------------------------------
\* Index generators of pymortests/strategies.py
\* ------------------------------------------------------------------------
\* the largest len(v) tried
MaxVLen == 3
\* the largest length argument tried
MaxIndLength == 3
\* length = 32 in valid_inds, length = 42 in invalid_inds
DefaultValidLength == 32
DefaultInvalidLength == 42

VLens == 0..MaxVLen
\* an optional integer: None, or the integer given
NotGiven == <<>>
Given(k) == <<k>>
IndLengths == {NotGiven} \cup {Given(k) : k \in 0..MaxIndLength}

\* An index is None, an integer, a slice, or a list of integers; a list is
\* kept by its size and the set of its entries.
IndNone == [kind |-> "None"]
IndInt(k) == [kind |-> "int", value |-> k]
IndSlice(start, stop, step) == [kind |-> "slice", start |-> start, stop |-> stop, step |-> step]
IndList(size, values) == [kind |-> "list", size |-> size, values |-> values]

\* list(np.random.randint(low, high, size=size)): any list of that size
RandintLists(low, high, size) ==
  IF size = 0 THEN {IndList(0, {})}
  ELSE {IndList(size, S) : S \in {T \in SUBSET (low..(high - 1)) : T # {} /\ Cardinality(T) <= size}}

\* lines 160-183, with len(v) - 1 replaced by len(v) in the integer indices
ValidIndsOffByOne(L, length) ==
  LET length2 == IF length = NotGiven THEN DefaultValidLength ELSE length[1]
  IN (IF L > 0 THEN {IndInt(-L), IndInt(0), IndInt(L)} ELSE {IndList(0, {})})
     \cup RandintLists(-L, L, IF L > 0 THEN length2 ELSE 0)
\* lines 160-183
ValidInds(L, length) ==
  LET first == IF length = NotGiven
               THEN {IndList(0, {}),
                     IndSlice(NotGiven, NotGiven, NotGiven),
                     IndSlice(Given(0), Given(L), NotGiven),
                     IndSlice(Given(0), Given(0), NotGiven),
                     IndSlice(NotGiven, Given(-3), NotGiven),
                     IndSlice(Given(0), Given(L), Given(3)),
                     IndSlice(Given(0), Given(L \div 2), Given(2)),
                     IndList(2 * L, (-L)..(L - 1)),
                     IndList(L \div 2, 0..((L \div 2) - 1)),
                     IndList(2 * L, 0..(L - 1))}
               ELSE {}
      length2 == IF length = NotGiven THEN DefaultValidLength ELSE length[1]
      second == IF L > 0
                THEN {IndInt(-L), IndInt(0), IndInt(L - 1)}
                     \cup (IF L = length2 THEN {IndSlice(NotGiven, NotGiven, NotGiven)} ELSE {})
                     \cup RandintLists(-L, L, length2)
                ELSE {IndSlice(Given(0), Given(0), NotGiven), IndList(0, {})}
  IN first \cup second

\* lines 363-374
InvalidInds(L, length) ==
  LET first == IF length = NotGiven
               THEN {IndInt(L), IndList(1, {L}), IndInt(-L - 1), IndList(1, {-L - 1}),
                     IndList(2, {0, L})}
               ELSE {}
      length2 == IF length = NotGiven THEN DefaultInvalidLength ELSE length[1]
      second == IF length2 > 0
                THEN {IndList(length2, {-L - 1} \cup (IF length2 > 1 THEN {0} ELSE {})),
                      IndList(length2, (0..(length2 - 2)) \cup {L})}
                ELSE {}
  IN {IndNone} \cup first \cup second

\* the entries of an integer or integer-list index
IndEntries(ind) ==
  IF ind.kind = "int" THEN {ind.value}
  ELSE IF ind.kind = "list" THEN ind.values
  ELSE {}
\* "an index >= its length, or a negative index beyond -length, raises"
IndexOutOfRange(L, k) == k >= L \/ k < -L
\* slicing never raises: any start and stop, any step but 0
SliceAccepted(ind) == ind.step = NotGiven \/ ind.step # Given(0)

IndInit ==
  /\ A = None /\ Ar = None /\ E = None /\ Er = None
  /\ B = None /\ Br = None /\ C = None /\ Cr = None
  /\ rdim = 1
  /\ pc = "idle"
  /\ error = "none"
  /\ Eloc = None
  /\ compute_V = FALSE /\ compute_W = FALSE
  /\ conv = NoConv
  /\ schur = NoSchur
  /\ heap = EmptyHeap
  /\ rhsRef = NoRef
  /\ i = 0 /\ it = 0
  /\ V = <<>> /\ W = <<>> /\ Vret = <<>> /\ Wret = <<>>
  /\ result = NoResult
  /\ calls = <<>>
  /\ fn = NoFunctional /\ fcall = NoCall /\ fret = NoRet /\ exprArgs = NoExprArgs
  /\ nt = NoNewton
  /\ AuxInit

\* one index yielded by valid_inds(v, length)
DrawValid ==
  /\ \E L \in VLens, length \in IndLengths :
       \E ind \in ValidInds(L, length) :
         ix' = [gen |-> "valid", len |-> L, length |-> length, ind |-> ind]
  /\ UNCHANGED <<sylvVars, funcVars, newtVars, stratVars, plotVars>>

\* one index yielded by invalid_inds(v, length)
DrawInvalid ==
  /\ \E L \in VLens, length \in IndLengths :
       \E ind \in InvalidInds(L, length) :
         ix' = [gen |-> "invalid", len |-> L, length |-> length, ind |-> ind]
  /\ UNCHANGED <<sylvVars, funcVars, newtVars, stratVars, plotVars>>

IndNext ==
  \/ DrawValid
  \/ DrawInvalid

SpecIndices == IndInit /\ [][IndNext]_vars

\* ------------------------------------------------------------------------
\* The vector_arrays strategy of pymortests/strategies.py
\* ------------------------------------------------------------------------
\* the most calls of vector_arrays followed
MaxStrategyCalls == 4

\* solve_sylv_schur, the parameter functionals and newton are not in use
OthersIdle ==
  /\ A = None /\ Ar = None /\ E = None /\ Er = None
  /\ B = None /\ Br = None /\ C = None /\ Cr = None
  /\ rdim = 1
  /\ pc = "idle"
  /\ error = "none"
  /\ Eloc = None
  /\ compute_V = FALSE /\ compute_W = FALSE
  /\ conv = NoConv
  /\ schur = NoSchur
  /\ heap = EmptyHeap
  /\ rhsRef = NoRef
  /\ i = 0 /\ it = 0
  /\ V = <<>> /\ W = <<>> /\ Vret = <<>> /\ Wret = <<>>
  /\ result = NoResult
  /\ calls = <<>>
  /\ fn = NoFunctional /\ fcall = NoCall /\ fret = NoRet /\ exprArgs = NoExprArgs
  /\ nt = NoNewton

\* lines 113-134: the optional backends found by config, in source order
OtherTypeLists ==
  {<<>>, <<"fenics">>, <<"ngsolve">>, <<"dealii">>, <<"fenics", "ngsolve">>,
   <<"fenics", "dealii">>, <<"ngsolve", "dealii">>, <<"fenics", "ngsolve", "dealii">>}

\* the module as imported
StratInit ==
  /\ OthersIdle
  /\ ix = NoIndex
  /\ plot = NoPlot
  /\ picklable_vector_space_types = PicklableTypes
  /\ other_vector_space_types \in OtherTypeLists
  /\ va = NoVA

\* lines 146-148: space_types is the module-level list itself, and extend
\* appends to it in place
SpaceTypes(picklable, other, picklable_only) ==
  IF picklable_only
  THEN [space_types |-> picklable, picklable |-> picklable]
  ELSE [space_types |-> picklable \o other, picklable |-> picklable \o other]

\* lines 141-155: one call of vector_arrays; every entry of space_types is
\* drawn from in turn
CallVectorArrays ==
  /\ va.calls < MaxStrategyCalls
  /\ \E picklable_only \in BOOLEAN :
       LET st == SpaceTypes(picklable_vector_space_types, other_vector_space_types,
                            picklable_only)
       IN /\ picklable_vector_space_types' = st.picklable
          /\ va' = [picklable_only |-> picklable_only, space_types |-> st.space_types,
                    calls |-> va.calls + 1]
  /\ UNCHANGED <<sylvVars, funcVars, newtVars, indVars, plotVars, other_vector_space_types>>

StratNext ==
  \/ CallVectorArrays

SpecStrategies == StratInit /\ [][StratNext]_vars

\* ------------------------------------------------------------------------
\* VTKPlot of k3d_vtk/plot.py
\* ------------------------------------------------------------------------
\* the most frames of a plot
MaxFrames == 3

\* the indices asked for through _goto_idx
RequestedIndices == (-MaxFrames - 1)..(MaxFrames + 1)

PlotInit ==
  /\ OthersIdle
  /\ AuxInit

\* lines 58-73: idx = 0, the mesh and the timestep are those of frame 0;
\* timestep and mesh hold the number of the frame they were taken from
ConstructVTKPlot ==
  /\ plot.call = "none"
  /\ \E n \in 1..MaxFrames :
       plot' = [n |-> n, idx |-> 0, timestep |-> 0, mesh |-> 0,
                call |-> "__init__", arg |-> 0, error |-> "none"]
  /\ UNCHANGED <<sylvVars, funcVars, newtVars, indVars, stratVars>>

\* lines 75-81: the test is made on self.idx, self.idx is assigned next,
\* and self.vtk_data[self.idx] follows numpy indexing: a negative index
\* counts from the end, an index outside [-n, n) raises IndexError
GotoIdx(p, idx) ==
  IF ~(0 <= p.idx /\ p.idx < p.n)
  THEN [p EXCEPT !.error = "RuntimeWarning"]
  ELSE IF idx >= p.n \/ idx < -p.n
  THEN [p EXCEPT !.idx = idx, !.error = "IndexError"]
  ELSE [p EXCEPT !.idx = idx, !.timestep = PyIdx(idx, p.n), !.mesh = PyIdx(idx, p.n),
                 !.error = "none"]

CallGotoIdx ==
  /\ plot.call # "none"
  /\ \E idx \in RequestedIndices :
       plot' = [GotoIdx(plot, idx) EXCEPT !.call = "_goto_idx", !.arg = idx]
  /\ UNCHANGED <<sylvVars, funcVars, newtVars, indVars, stratVars>>

\* lines 83-84
CallDec ==
  /\ plot.call # "none"
  /\ plot' = [GotoIdx(plot, plot.idx - 1) EXCEPT !.call = "dec", !.arg = plot.idx - 1]
  /\ UNCHANGED <<sylvVars, funcVars, newtVars, indVars, stratVars>>

\* lines 86-87
CallInc ==
  /\ plot.call # "none"
  /\ plot' = [GotoIdx(plot, plot.idx + 1) EXCEPT !.call = "inc", !.arg = plot.idx + 1]
  /\ UNCHANGED <<sylvVars, funcVars, newtVars, indVars, stratVars>>

PlotNext ==
  \/ ConstructVTKPlot
  \/ CallGotoIdx
  \/ CallDec
  \/ CallInc

SpecPlot == PlotInit /\ [][PlotNext]_vars

\* ------------------------------------------------------------------------
\* Properties of solve_sylv_schur
\* ------------------------------------------------------------------------
\* A, Ar are linear operators with source == range, and E, Er are absent or
\* linear with source == range == A.source (resp. Ar.source)
ArgsAEValid ==
  /\ A.kind = "Op" /\ A.linear /\ A.source = A.range
  /\ Ar.kind = "Op" /\ Ar.linear /\ Ar.source = Ar.range
  /\ (E # None => E.kind = "Op" /\ E.linear /\ E.source = A.source
                   /\ E.range = A.source)
  /\ (Er # None => Er.kind = "Op" /\ Er.linear /\ Er.source = Ar.source
                    /\ Er.range = Ar.source)

\* the requirements on B, Br (resp. C, Cr) relative to A, Ar
CheckVArgsStated ==
  /\ B.kind = "Op" /\ B.linear /\ Br.kind = "Op" /\ Br.linear
  /\ B.range = A.source /\ Br.range = Ar.source /\ B.source = Br.source
CheckWArgsStated ==
  /\ C.kind = "Op" /\ C.linear /\ Cr.kind = "Op" /\ Cr.linear
  /\ C.source = A.source /\ Cr.source = Ar.source /\ C.range = Cr.range

BPairGiven == B # None /\ Br # None
CPairGiven == C # None /\ Cr # None
BPairLone == (B # None) # (Br # None)
CPairLone == (C # None) # (Cr # None)

\* no conversion, decomposition, apply, lincomb or solve was performed
NothingDone ==
  /\ calls = <<>> /\ conv = NoConv /\ schur = NoSchur
  /\ heap = EmptyHeap /\ V = <<>> /\ W = <<>>

Count(seq, x) == Cardinality({k \in 1..Len(seq) : seq[k] = x})

\* C1: a call with valid A, Ar, E, Er in which neither B and Br nor C and Cr
\* are both given ends with ValueError, and nothing (no conversion, Schur
\* decomposition, apply, lincomb or inverse application) is performed before.
C1_InsufficientParameters ==
  (ArgsAEValid /\ ~BPairGiven /\ ~CPairGiven) =>
     /\ pc \in {"check_types", "check_pairs", "failed"}
     /\ NothingDone
     /\ (pc = "failed" => error = "ValueError")

C1_Witness ==
  /\ ArgsAEValid /\ B # None /\ Br = None /\ C = None /\ Cr # None
  /\ pc = "failed" /\ error = "ValueError"

\* C2 as stated: a call in which exactly one member of a pair is given is
\* rejected before any solve, also when the other pair is complete.
C2_LoneMemberRejected ==
  (ArgsAEValid /\ (BPairLone \/ CPairLone)) =>
     /\ pc \in {"check_types", "check_pairs", "failed"}
     /\ NothingDone

\* C2 amended: a lone member of a pair leads to rejection (ValueError, before
\* anything is done) only when the other pair is not complete; when the
\* other pair is complete no ValueError is raised and nothing is solved for
\* the incomplete pair: with a valid complete pair, and the lone member an
\* operator, the call returns the solution of the complete pair's equation
\* alone.
C2_LoneMemberIgnored ==
  /\ (ArgsAEValid /\ BPairLone) =>
        IF CPairGiven
        THEN /\ error # "ValueError"
             /\ V = <<>> /\ heap.BBr2 = <<>> /\ Vret = <<>>
             /\ (CheckWArgsStated /\ Br.kind # "NotOp" => pc # "failed")
             /\ (pc = "done" => result.kind = "W")
        ELSE /\ pc \in {"check_types", "check_pairs", "failed"}
             /\ NothingDone
             /\ (pc = "failed" => error = "ValueError")
  /\ (ArgsAEValid /\ CPairLone) =>
        IF BPairGiven
        THEN /\ error # "ValueError"
             /\ W = <<>> /\ heap.CTCr2 = <<>> /\ Wret = <<>>
             /\ (CheckVArgsStated /\ Cr.kind # "NotOp" => pc # "failed")
             /\ (pc = "done" => result.kind = "V")
        ELSE /\ pc \in {"check_types", "check_pairs", "failed"}
             /\ NothingDone
             /\ (pc = "failed" => error = "ValueError")

C2_Witness ==
  /\ ArgsAEValid /\ B # None /\ Br = None /\ CPairGiven
  /\ pc = "done" /\ result.kind = "W" /\ Len(result.W) = rdim

\* C3: a call in which A or Ar is not a linear operator with source ==
\* range, or a supplied E (Er) is not linear with source == range ==
\* A.source (Ar.source), is rejected before any conversion, Schur
\* decomposition or solve.
C3_TypesRejected ==
  ~ArgsAEValid =>
     /\ pc \in {"check_types", "failed"}
     /\ NothingDone
     /\ (pc = "failed" => error = "AssertionError")

C3_Witness ==
  /\ A = Op(TRUE, "n", "n") /\ Ar = Op(TRUE, "r", "r")
  /\ E = Op(TRUE, "r", "r") /\ Er = None
  /\ BPairGiven
  /\ pc = "failed" /\ error = "AssertionError"

\* C4: the columns of V are solved from the last Schur column to the first,
\* those of W from the first to the last; every column costs exactly one
\* inverse application of the LincombOperator of A and E (apply_inverse for
\* V, apply_inverse_adjoint for W) and appends exactly one vector, so a
\* requested equation performs exactly r solves.
C4_ColumnOrder ==
  /\ \A k \in 1..Len(V) :
        V[k].rhs.src = "BBr2" /\ V[k].rhs.col = rdim - k /\ ~V[k].adjoint
  /\ \A k \in 1..Len(W) :
        W[k].rhs.src = "CTCr2" /\ W[k].rhs.col = k - 1 /\ W[k].adjoint
  /\ Count(calls, "apply_inverse") = Len(V)
  /\ Count(calls, "apply_inverse_adjoint") = Len(W)
  /\ Count(calls, "append") = Len(V) + Len(W)
  /\ (pc \in {"return", "done"} =>
        /\ Len(V) = (IF BPairGiven THEN rdim ELSE 0)
        /\ Len(W) = (IF CPairGiven THEN rdim ELSE 0))

C4_Witness ==
  /\ pc = "done" /\ rdim >= 3 /\ Len(V) = rdim /\ Len(W) = rdim
  /\ V[1].rhs.col = rdim - 1 /\ V[rdim].rhs.col = 0
  /\ W[1].rhs.col = 0 /\ W[rdim].rhs.col = rdim - 1

\* The operator inverted for Schur column c, as stated: [A, E] (E the
\* identity on A.source when absent) with the coefficients
\* [conj(TEr[c, c]), conj(TAr[c, c])], the first being 1 without Er.
StatedShift(c) ==
  <<IF Er = None THEN [m |-> "1", i |-> 0, j |-> 0, cj |-> FALSE]
                 ELSE [m |-> "TEr", i |-> c, j |-> c, cj |-> TRUE],
    [m |-> "TAr", i |-> c, j |-> c, cj |-> TRUE]>>
StatedOps == <<A, IF E = None THEN Op(TRUE, A.source, A.source) ELSE E>>

\* C5: for the column with Schur index i the inverted operator is the
\* linear combination of exactly [A, E] with the coefficients
\* [conj(TEr[i, i]), conj(TAr[i, i])] (1 for A when Er is absent); the
\* index of the diagonal entries is that of the right-hand side column, in
\* the V loop and in the W loop.
C5_ShiftedOperator ==
  /\ \A k \in 1..Len(V) :
        V[k].ops = StatedOps /\ V[k].coefs = StatedShift(V[k].rhs.col)
  /\ \A k \in 1..Len(W) :
        W[k].ops = StatedOps /\ W[k].coefs = StatedShift(W[k].rhs.col)

C5_Witness ==
  /\ pc = "done" /\ Er # None /\ E = None /\ rdim >= 2
  /\ Len(V) = rdim /\ Len(W) = rdim
  /\ V[1].coefs[1] = [m |-> "TEr", i |-> rdim - 1, j |-> rdim - 1, cj |-> TRUE]
  /\ W[1].coefs[2] = [m |-> "TAr", i |-> 0, j |-> 0, cj |-> TRUE]

\* The corrections of the right-hand side of the column appended as the
\* k-th vector (k >= 2): one per operator, A (weighted by TEr, only with Er)
\* then E (weighted by TAr), each a lincomb of all the k - 1 vectors appended
\* before.  entry(T, q) is the coefficient of the q-th appended vector.
CorrectionsAre(subs, k, adjoint, cols(_), entry(_, _)) ==
  LET want(op, T) ==
        [op |-> op, adjoint |-> adjoint,
         coefs |-> [q \in 1..(k - 1) |-> entry(T, q)],
         n |-> k - 1,
         of |-> [q \in 1..(k - 1) |-> cols(q)]]
  IN  subs = IF k = 1 THEN <<>>
             ELSE (IF Er # None THEN <<want("A", "TEr")>> ELSE <<>>)
                    \o <<want("E", "TAr")>>

\* C6 as stated: the k-th coefficient is the off-diagonal Schur entry of
\* row (V) or column (W) i belonging to the Schur column of the k-th
\* appended vector.
C6_CorrectionsPlainEntries ==
  /\ \A k \in 1..Len(V) :
        LET c == V[k].rhs.col
            colOf(q) == rdim - q
            ent(T, q) == [m |-> T, i |-> c, j |-> rdim - q, cj |-> FALSE]
        IN  CorrectionsAre(V[k].rhs.subs, k, FALSE, colOf, ent)
  /\ \A k \in 1..Len(W) :
        LET c == W[k].rhs.col
            colOf(q) == q - 1
            ent(T, q) == [m |-> T, i |-> q - 1, j |-> c, cj |-> FALSE]
        IN  CorrectionsAre(W[k].rhs.subs, k, TRUE, colOf, ent)

\* C6 amended: the right-hand side of every column after the first solved
\* one subtracts corrections built from all and only the previously solved
\* columns: each coefficient vector has as many entries as vectors already
\* appended; for W its k-th entry is the Schur entry TEr[k, i] / TAr[k, i]
\* of column i, for V it is the complex conjugate of the Schur entry
\* TEr[i, r-1-k] / TAr[i, r-1-k] of row i; the A-correction weighted by TEr
\* is applied only when Er is given.
C6_Corrections ==
  /\ \A k \in 1..Len(V) :
        LET c == V[k].rhs.col
            colOf(q) == rdim - q
            ent(T, q) == [m |-> T, i |-> c, j |-> rdim - q, cj |-> TRUE]
        IN  CorrectionsAre(V[k].rhs.subs, k, FALSE, colOf, ent)
  /\ \A k \in 1..Len(W) :
        LET c == W[k].rhs.col
            colOf(q) == q - 1
            ent(T, q) == [m |-> T, i |-> q - 1, j |-> c, cj |-> FALSE]
        IN  CorrectionsAre(W[k].rhs.subs, k, TRUE, colOf, ent)

C6_Witness ==
  /\ pc = "done" /\ rdim >= 3 /\ Er # None
  /\ Len(V) = rdim /\ Len(W) = rdim
  /\ Len(V[rdim].rhs.subs) = 2 /\ Len(V[rdim].rhs.subs[1].coefs) = rdim - 1
  /\ Len(W[rdim].rhs.subs) = 2 /\ Len(W[rdim].rhs.subs[2].coefs) = rdim - 1

\* every vector of the returned array arr lies in A.source, is real, and is
\* the combination sum_c conj(mat[j, c]) * (solution of Schur column c) over
\* all r Schur columns c
BackTransformed(arr, mat) ==
  /\ Len(arr) = rdim
  /\ \A j \in 1..Len(arr) :
        /\ arr[j].space = A.source /\ arr[j].real
        /\ Len(arr[j].terms) = rdim
        /\ {arr[j].terms[k].vec : k \in 1..rdim} = 0..(rdim - 1)
        /\ \A k \in 1..rdim :
              arr[j].terms[k].coef =
                [m |-> mat, i |-> j - 1, j |-> arr[j].terms[k].vec, cj |-> TRUE]

\* C7: the call returns (V, W) when both pairs are given, V alone when only
\* B and Br are given, W alone when only C and Cr are given; each returned
\* array holds exactly r vectors of A.source, V back-transformed with Z
\* (column order restored) and W with Q, where Q = Z when Er is absent.
C7_ReturnValue ==
  pc = "done" =>
     /\ result.kind = (IF BPairGiven /\ CPairGiven THEN "pair"
                       ELSE IF BPairGiven THEN "V" ELSE "W")
     /\ (BPairGiven \/ CPairGiven)
     /\ (BPairGiven => BackTransformed(result.V, "Z"))
     /\ (CPairGiven => BackTransformed(result.W, IF Er = None THEN "Z" ELSE "Q"))
     /\ (~BPairGiven => result.V = <<>>)
     /\ (~CPairGiven => result.W = <<>>)

C7_Witness ==
  /\ pc = "done" /\ result.kind = "pair" /\ Er = None /\ rdim >= 2
  /\ Len(result.V) = rdim /\ Len(result.W) = rdim

\* the columns of the transformed right-hand sides as they were computed
Pristine(name) == [c \in 1..rdim |-> [src |-> name, col |-> c - 1,
                                      neg |-> FALSE, subs |-> <<>>]]

\* C8: a step of the call never changes the arguments A, E, B, C, Ar, Er,
\* Br, Cr, and once the transformed right-hand sides B.Br2 and C^T.Cr2 are
\* computed no step changes them: building the right-hand side of one
\* column leaves the data of the other columns as it was.
C8_StateFree ==
  [][/\ <<A, Ar, E, Er, B, Br, C, Cr>>' = <<A, Ar, E, Er, B, Br, C, Cr>>
     /\ (heap.BBr2 # <<>> => heap.BBr2 = Pristine("BBr2") /\ heap'.BBr2 = heap.BBr2)
     /\ (heap.CTCr2 # <<>> => heap.CTCr2 = Pristine("CTCr2") /\ heap'.CTCr2 = heap.CTCr2)
    ]_vars

C8_Witness ==
  /\ pc = "loop_W" /\ it >= 2 /\ Er # None
  /\ heap.BBr2 = Pristine("BBr2") /\ heap.CTCr2 = Pristine("CTCr2")
  /\ heap.rhs[1].neg /\ Len(heap.rhs[1].subs) = 2


\* ------------------------------------------------------------------------
\* Properties of the parameter functionals (SpecFunctionals)
\* ------------------------------------------------------------------------
\* C9: for every variant of ParameterFunctional, d_mu(parameter, index) with
\* a parameter that is not in the functional's parameters does not raise
\* and returns a constant functional that evaluates to 0 at every mu.
C9_ZeroDerivative ==
  (fcall.op = "d_mu" /\ fcall.args[1] \notin DOMAIN ParametersOf(fn)) =>
     /\ IsOk(fret)
     /\ fret.value.kind = "Constant"
     /\ \A mu \in Mus : Evaluate(fret.value, mu) = Ok(RatOf(0))

\* d_mu was called on a projection of p with parameter q or z and with the
\* projection's own index
C9_Witness ==
  /\ fcall.op = "d_mu"
  /\ fn.kind = "Projection"
  /\ fcall.args[1] \notin DOMAIN ParametersOf(fn)
  /\ fcall.args[2] = fn.index
  /\ IsOk(fret)
  /\ fret.value.constant_value = 0

\* the values of the thetas of f at mu
ThetasAt(f, mu) == [k \in 1..Len(f.thetas) |-> Evaluate(f.thetas[k], mu).value]

\* C10: MaxThetaParameterFunctional.evaluate(mu) returns gamma_mu_bar times
\* the maximum over q of |theta_q(mu) / theta_q(mu_bar)|, for every mu at
\* which all theta_q(mu) are nonzero, negative ratios included.
C10_MaxAbsRatio ==
  (/\ fcall.op = "evaluate"
   /\ fn.kind = "MaxTheta"
   /\ Compatible(ParametersOf(fn), fcall.args[1])
   /\ \A k \in 1..Len(fn.thetas) : ThetasAt(fn, fcall.args[1])[k] # RatOf(0)) =>
     fret = Ok(RatMul(RatOf(fn.gamma_mu_bar),
                      RatMax([k \in 1..Len(fn.thetas) |->
                                RatAbs(RatDiv(ThetasAt(fn, fcall.args[1])[k],
                                              fn.thetas_mu_bar[k]))])))


\* the constructor call at hand got as far as the values of the thetas at
\* mu_bar, and some of them satisfies bad
ConstructedWith(op, bad(_)) ==
  /\ fcall.op = op
  /\ IsOk(ThetasAtMuBar(fcall.args[1], fcall.args[2]))
  /\ \E k \in 1..Len(fcall.args[1]) :
        bad(ThetasAtMuBar(fcall.args[1], fcall.args[2]).value[k])

NotPositive(x) == ~RatLess(RatOf(0), x)
IsZero(x) == x = RatOf(0)

\* C11: constructing a MinThetaParameterFunctional fails when some
\* theta_q(mu_bar) is not strictly positive, constructing a
\* MaxThetaParameterFunctional fails when some theta_q(mu_bar) is zero; the
\* constructor itself fails, so no min-theta (max-theta) functional exists
\* whose thetas have a non-positive (zero) value at its mu_bar.
C11_SignAtConstruction ==
  /\ ConstructedWith("MinThetaParameterFunctional", NotPositive) =>
        (~IsOk(fret) /\ fn = NoFunctional)
  /\ ConstructedWith("MaxThetaParameterFunctional", IsZero) =>
        (~IsOk(fret) /\ fn = NoFunctional)
  /\ fn.kind = "MinTheta" =>
        \A k \in 1..Len(fn.thetas) : ~NotPositive(ThetasAt(fn, fn.mu_bar)[k])
  /\ fn.kind = "MaxTheta" =>
        \A k \in 1..Len(fn.thetas) : ~IsZero(ThetasAt(fn, fn.mu_bar)[k])

\* a min-theta constructor was called with two thetas, the first positive
\* and the second negative at mu_bar, and raised
C11_Witness ==
  /\ fcall.op = "MinThetaParameterFunctional"
  /\ Len(fcall.args[1]) = 2
  /\ IsOk(ThetasAtMuBar(fcall.args[1], fcall.args[2]))
  /\ RatLess(RatOf(0), ThetasAtMuBar(fcall.args[1], fcall.args[2]).value[1])
  /\ RatLess(ThetasAtMuBar(fcall.args[1], fcall.args[2]).value[2], RatOf(0))
  /\ fret = Raise("AssertionError")
  /\ fn = NoFunctional


\* evaluate was called on a min-theta or max-theta functional with a
\* compatible mu
EvaluatedBound(kind) ==
  /\ fcall.op = "evaluate"
  /\ fn.kind = kind
  /\ Compatible(ParametersOf(fn), fcall.args[1])

\* evaluate fails when some theta_q(mu) is not strictly positive (min) or
\* is zero (max)
EvaluateChecksSign ==
  /\ (/\ EvaluatedBound("MinTheta")
      /\ \E k \in 1..Len(fn.thetas) : NotPositive(ThetasAt(fn, fcall.args[1])[k]))
        => ~IsOk(fret)
  /\ (/\ EvaluatedBound("MaxTheta")
      /\ \E k \in 1..Len(fn.thetas) : IsZero(ThetasAt(fn, fcall.args[1])[k]))
        => ~IsOk(fret)

\* evaluate at mu passes its sign check exactly when the constructor, given
\* the same thetas and bound with mu as mu_bar, passes its own
EvaluateCheckIsConstructorCheck ==
  /\ EvaluatedBound("MinTheta") =>
        (IsOk(fret) <=>
           IsOk(MinThetaInit(fn.thetas, fcall.args[1], Number(fn.alpha_mu_bar))))
  /\ EvaluatedBound("MaxTheta") =>
        (IsOk(fret) <=>
           IsOk(MaxThetaInit(fn.thetas, fcall.args[1], Number(fn.gamma_mu_bar))))

\* C12: MinThetaParameterFunctional.evaluate(mu) fails whenever some
\* theta_q(mu) is not strictly positive, MaxThetaParameterFunctional.evaluate(mu)
\* fails whenever some theta_q(mu) is zero, and the sign condition checked at
\* evaluation is the condition the constructor checked at mu_bar.
C12_SameSignCondition ==
  EvaluateChecksSign /\ EvaluateCheckIsConstructorCheck


\* C13: a successfully constructed MinThetaParameterFunctional evaluated at
\* its own mu_bar returns exactly alpha_mu_bar.
C13_MinThetaAtMuBar ==
  (EvaluatedBound("MinTheta") /\ fcall.args[1] = fn.mu_bar) =>
     fret = Ok(RatOf(fn.alpha_mu_bar))

\* a min-theta functional with two thetas of different value at mu_bar was
\* evaluated at mu_bar
C13_Witness ==
  /\ EvaluatedBound("MinTheta")
  /\ fcall.args[1] = fn.mu_bar
  /\ Len(fn.thetas) = 2
  /\ fn.thetas_mu_bar[1] # fn.thetas_mu_bar[2]
  /\ fret = Ok(RatOf(fn.alpha_mu_bar))


\* C14: evaluate(mu) of every variant checks mu against the functional's
\* effective parameters before it returns a value: a mu that violates them
\* (a missing name, a wrong number of components, values supplied where
\* there are no parameters) never yields a result.
C14_CompatibilityChecked ==
  (fcall.op = "evaluate" /\ ~Compatible(ParametersOf(fn), fcall.args[1])) =>
     ~IsOk(fret)


\* f and g evaluate and differentiate identically
SameFunctional(f, g) ==
  /\ \A mu \in Mus : Evaluate(f, mu) = Evaluate(g, mu)
  /\ \A parameter \in ParamNames \cup {"z"}, index \in 0..2 :
        D_mu(f, parameter, index) = D_mu(g, parameter, index)

\* C15: __reduce__ of an ExpressionParameterFunctional returns the
\* expression, parameters, name, derivative_expressions and
\* second_derivative_expressions exactly as they were supplied to the
\* constructor, and the constructor called on them succeeds and yields a
\* functional that evaluates and differentiates identically, also when
\* first and second derivative expressions were given.
C15_ReduceRoundTrip ==
  /\ fcall.op = "__reduce__" => fret = Ok(exprArgs.supplied)
  /\ fcall.op = "reconstruct" =>
        /\ fcall.args = exprArgs.supplied
        /\ IsOk(fret)
        /\ SameFunctional(fret.value, fn)


\* C16: an expression evaluated by ExpressionParameterFunctional resolves
\* only the parameter names of mu and the entries of the fixed table of
\* numeric functions and constants; it reaches no other callable, module or
\* attribute.
C16_ConstrainedNamespace ==
  (fcall.op = "eval" /\ IsOk(fret)) =>
     \/ fret.value.kind = "parameter" /\ fret.value.name \in DOMAIN fcall.args[3]
     \/ /\ fret.value.kind = "numeric"
        /\ fret.value.name \in NumpyNames \cup {"norm", "polar"}


\* C17: a ProjectionParameterFunctional built for parameter p with size s
\* and index i, 0 <= i < s, has the parameters {p: s} and evaluates, for
\* every mu compatible with them, to component i of mu[p]; with size 3 and
\* index 1 on {p: [a, b, c]} the value is b.
C17_Projection ==
  /\ (fcall.op = "ProjectionParameterFunctional" /\ IsOk(fret)) =>
        /\ fn = fret.value
        /\ DOMAIN ParametersOf(fn) = {fcall.args[1]}
        /\ ParametersOf(fn)[fcall.args[1]] = fcall.args[2].value
        /\ fn.index = IF fcall.args[3] = PyNone THEN 0 ELSE fcall.args[3].value
  /\ (/\ fcall.op = "evaluate"
      /\ fn.kind = "Projection"
      /\ Compatible(ParametersOf(fn), fcall.args[1])) =>
        /\ IsOk(fret)
        /\ \E k \in 0..(fn.size - 1) :
              k = fn.index /\ fret.value = <<fcall.args[1][fn.parameter][k + 1], 1>>
  /\ (/\ fcall.op = "evaluate"
      /\ fn.kind = "Projection" /\ fn.size = 3 /\ fn.index = 1
      /\ Compatible(ParametersOf(fn), fcall.args[1])) =>
        \E a \in Values3, b \in Values3, c \in Values3 :
           /\ fcall.args[1] = [n \in {fn.parameter} |-> <<a, b, c>>]
           /\ fret = Ok(<<b, 1>>)

\* the projection with size 3 and index 1 was evaluated at p = [a, b, c]
\* with b different from a and c
C17_Witness ==
  /\ fcall.op = "evaluate"
  /\ fn.kind = "Projection" /\ fn.size = 3 /\ fn.index = 1
  /\ Compatible(ParametersOf(fn), fcall.args[1])
  /\ fcall.args[1][fn.parameter][2] # fcall.args[1][fn.parameter][1]
  /\ fcall.args[1][fn.parameter][2] # fcall.args[1][fn.parameter][3]
  /\ fret = Ok(<<fcall.args[1][fn.parameter][2], 1>>)


\* the value at mu of a factor: a plain number counts as itself
FactorValue(x, mu) ==
  IF x.kind = "Number" THEN RatOf(x.value) ELSE Evaluate(x, mu).value

\* the functionals whose values the model computes
Computed(x) == x.kind \in {"Number", "Projection", "Constant"}

\* x has a value at mu
HasValue(x, mu) == x.kind = "Number" \/ IsOk(Evaluate(x, mu))

\* a product evaluates to the product of the values of its factors, and has
\* no value where one of its factors has none
ProductOfValues ==
  (/\ fcall.op = "evaluate"
   /\ fn.kind = "Product"
   /\ Compatible(ParametersOf(fn), fcall.args[1])) =>
     IF \A k \in 1..Len(fn.factors) : HasValue(fn.factors[k], fcall.args[1])
     THEN /\ IsOk(fret)
          /\ \/ /\ Len(fn.factors) = 1
                /\ fret.value = FactorValue(fn.factors[1], fcall.args[1])
             \/ /\ Len(fn.factors) = 2
                /\ fret.value = RatMul(FactorValue(fn.factors[1], fcall.args[1]),
                                       FactorValue(fn.factors[2], fcall.args[1]))
     ELSE ~IsOk(fret)

\* f * c and c * f (f.__rmul__(c) for a number c, c.__mul__(f) for a
\* functional c) evaluate to the same value, the product of the two values
ProductCommutes ==
  (/\ fcall.op \in {"__mul__", "__rmul__"}
   /\ IsOk(fret)
   /\ Computed(fcall.args[1])) =>
     \A mu \in Mus :
        (/\ Compatible(ParametersOf(fret.value), mu)
         /\ HasValue(fcall.args[1], mu) /\ HasValue(fcall.args[2], mu)) =>
          /\ Evaluate(fret.value, mu) =
               Ok(RatMul(FactorValue(fcall.args[1], mu), FactorValue(fcall.args[2], mu)))
          /\ Evaluate(fret.value, mu) =
               Evaluate(ProductInit(<<fcall.args[2], fcall.args[1]>>).value, mu)

\* -f evaluates to the negative of f
NegativeOfValue ==
  (fcall.op = "__neg__" /\ Computed(fcall.args[1])) =>
     /\ IsOk(fret)
     /\ \A mu \in Mus :
           Compatible(ParametersOf(fcall.args[1]), mu) =>
             /\ IsOk(Evaluate(fret.value, mu))
             /\ Evaluate(fret.value, mu).value[1] = -Evaluate(fcall.args[1], mu).value[1]
             /\ Evaluate(fret.value, mu).value[2] = Evaluate(fcall.args[1], mu).value[2]

\* C18: a ProductParameterFunctional over a non-empty list of factors
\* evaluates at mu to the product of the values of its factors at mu, a
\* plain number counting as itself; f * c and c * f evaluate to the same
\* value, -f evaluates to the negative of f, and evaluation leaves the
\* functional with its list of factors unchanged.
C18_Product ==
  /\ [](ProductOfValues /\ ProductCommutes /\ NegativeOfValue)
  /\ [][fcall'.op = "evaluate" => fn' = fn]_vars

\* a product of two projections of different value was evaluated
C18_Witness ==
  /\ fcall.op = "evaluate"
  /\ fn.kind = "Product"
  /\ Len(fn.factors) = 2
  /\ fn.factors[1].kind = "Projection" /\ fn.factors[2].kind = "Projection"
  /\ fn.factors[1] # fn.factors[2]
  /\ IsOk(fret)
  /\ fret.value = <<-4, 1>>


\* ------------------------------------------------------------------------
\* Properties of the Newton iteration
\* ------------------------------------------------------------------------
\* a call on the constant residual (order 0) with the iteration cap of
\* test_newton_fail
Order0Call == nt.pc # "idle" /\ nt.order = 0 /\ nt.maxiter = IterationCap

\* a step taken where the Jacobian is singular ends the call with NewtonError
InversionFailureSurfaces ==
  (nt.pc = "check" /\ nt'.iteration = nt.iteration + 1 /\ Singular(nt.order, nt.U))
    => (nt'.pc = "raised" /\ nt'.error = "NewtonError")

\* C19: Newton on the constant nonzero residual (order 0) with an iteration
\* cap of 10 never returns a result and never iterates past the cap, a
\* failing inversion of the singular Jacobian ends the call with NewtonError
\* instead of being ignored, and the call does end by raising NewtonError.
C19_Order0Fails ==
  /\ [](Order0Call => (nt.pc # "returned" /\ nt.iteration <= IterationCap))
  /\ [][InversionFailureSurfaces]_vars
  /\ (Order0Call ~> (nt.pc = "raised" /\ nt.error = "NewtonError"))

C19_Witness ==
  /\ Order0Call
  /\ nt.stagnation_threshold = NtInf
  /\ nt.pc = "raised" /\ nt.error = "NewtonError"
  /\ nt.message = "Could not invert jacobian"
  /\ nt.iteration <= IterationCap


\* a call whose residual at the initial guess is zero, for x^n with n >= 2
ZeroStart == nt.pc # "idle" /\ nt.order >= 2 /\ nt.err0.kind = "zero"

\* C21: when the residual at the initial guess is already zero (x^n with
\* n >= 2 started at 0), Newton returns the initial guess after zero
\* iterations: no Jacobian inversion is made and no error is raised although
\* the Jacobian at the initial guess is singular.
C21_ZeroResidualReturns ==
  /\ [](ZeroStart => (/\ nt.iteration = 0
                      /\ nt.pc # "raised"
                      /\ nt.U = NtZero
                      /\ Singular(nt.order, nt.U)))
  /\ (ZeroStart ~> (nt.pc = "returned" /\ nt.U = NtZero /\ nt.iteration = 0))

C21_Witness ==
  /\ ZeroStart
  /\ nt.pc = "returned" /\ nt.iteration = 0 /\ nt.U = NtZero
  /\ Singular(nt.order, nt.U)

\* the residual norm is at most atol or at most rtol times the initial norm
WithinTolerance ==
  \/ NtLeq(nt.err, nt.atol)
  \/ NtLeq(nt.err, NtTimes(nt.rtol, nt.err0))
\* the loop stands at an iterate that has not converged, and the last step's
\* relative change is below the threshold or the iteration count is used up
MustFail ==
  /\ nt.pc = "check"
  /\ ~WithinTolerance
  /\ \/ nt.iteration >= 1 /\ NtLess(nt.change, nt.stagnation_threshold)
     \/ nt.iteration >= nt.maxiter
RaisedNewtonError == nt.pc = "raised" /\ nt.error = "NewtonError"

\* C22: Newton returns only where the residual norm is at most atol or at
\* most rtol times the initial residual norm; on stagnation without
\* convergence, or when the iteration count is used up, the call ends with
\* NewtonError and no iterate is returned.
C22_ReturnOnlyConverged ==
  /\ [](nt.pc = "returned" => WithinTolerance)
  /\ [][MustFail => RaisedNewtonError']_vars
  /\ [][RaisedNewtonError => RaisedNewtonError']_vars
  /\ (MustFail ~> RaisedNewtonError)

C22_Witness ==
  /\ RaisedNewtonError
  /\ ~WithinTolerance
  /\ nt.message = "Error is stagnating"
  /\ nt.iteration < nt.maxiter


\* ------------------------------------------------------------------------
\* Properties of the index generators
\* ------------------------------------------------------------------------
\* C23: every integer or integer-list index of valid_inds(v) has all its
\* entries in [-len(v), len(v)) and every slice of it is accepted; every
\* index of invalid_inds(v) other than None has an entry >= len(v) or
\* < -len(v); no index is produced by both generators for the same v.
C23_ValidAndInvalidInds ==
  /\ ix.gen = "valid" =>
       /\ \A k \in IndEntries(ix.ind) : ~IndexOutOfRange(ix.len, k)
       /\ ix.ind.kind = "slice" => SliceAccepted(ix.ind)
       /\ ix.ind.kind \in {"int", "list", "slice"}
       /\ \A length \in IndLengths : ix.ind \notin InvalidInds(ix.len, length)
  /\ (ix.gen = "invalid" /\ ix.ind # IndNone) =>
       /\ \E k \in IndEntries(ix.ind) : IndexOutOfRange(ix.len, k)
       /\ \A length \in IndLengths : ix.ind \notin ValidInds(ix.len, length)

C23_Witness ==
  /\ ix.gen = "valid" /\ ix.len = MaxVLen /\ ix.length = NotGiven
  /\ ix.ind.kind = "list" /\ ix.ind.size = DefaultValidLength
  /\ -MaxVLen \in ix.ind.values


\* ------------------------------------------------------------------------
\* Properties of the derivatives of parameter functionals
\* ------------------------------------------------------------------------
\* C24: ProjectionParameterFunctional.d_mu(parameter, index) returns a
\* constant functional of value 1 exactly when parameter is the functional's
\* own parameter and index its own index, and of value 0 in every other
\* accepted case; for the own parameter an index outside [0, size) is
\* rejected, for any other parameter the index is not checked.
C24_ProjectionDerivative ==
  (fcall.op = "d_mu" /\ fn.kind = "Projection") =>
    LET parameter == fcall.args[1]
        index == fcall.args[2]
        own == parameter = fn.parameter
        inside == 0 <= index /\ index < fn.size
    IN /\ (own /\ ~inside) => (~IsOk(fret) /\ fret.error = "AssertionError")
       /\ (~own \/ inside) =>
            /\ IsOk(fret)
            /\ fret.value.kind = "Constant"
            /\ fret.value.constant_value = (IF own /\ index = fn.index THEN 1 ELSE 0)

C24_Witness ==
  /\ fcall.op = "d_mu" /\ fn.kind = "Projection"
  /\ fn.size = 2 /\ fn.index = 1
  /\ fcall.args = <<fn.parameter, 1>>
  /\ IsOk(fret) /\ fret.value.constant_value = 1


\* index is a valid index of parameter in the schema of f
ValidComponent(f, parameter, index) ==
  /\ parameter \in DOMAIN ParametersOf(f)
  /\ 0 <= index /\ index < ParametersOf(f)[parameter]
\* d_mu was called on a generic functional with a schema parameter and a
\* valid index
GenericD_muCall ==
  /\ fcall.op = "d_mu" /\ fn.kind = "Generic"
  /\ ValidComponent(fn, fcall.args[1], fcall.args[2])

\* C25: for a GenericParameterFunctional f, a schema parameter p and a valid
\* index i, f.d_mu(p, i) raises ValueError when f has no derivative mappings
\* or they do not contain p, and otherwise returns a functional with f's
\* schema wrapping derivative_mappings[p][i]; differentiating the result
\* once more by a schema parameter q succeeds only if second-derivative
\* mappings were supplied and contain q under [p][i]; a third successive
\* differentiation by a schema parameter raises ValueError.
C25_GenericDerivative ==
  GenericD_muCall =>
    LET p == fcall.args[1]
        k == fcall.args[2] + 1
        missing == fn.derivative_mappings.isNone \/ p \notin DOMAIN fn.derivative_mappings.d
    IN /\ missing => fret = Raise("ValueError")
       /\ ~missing =>
            /\ IsOk(fret)
            /\ fret.value.kind = "Generic"
            /\ ParametersOf(fret.value) = ParametersOf(fn)
            /\ fret.value.mapping = fn.derivative_mappings.d[p][k]
            /\ \A q \in DOMAIN ParametersOf(fn) : \A j \in 0..(ParametersOf(fn)[q] - 1) :
                 LET second == D_mu(fret.value, q, j)
                 IN /\ IsOk(second) =>
                         /\ ~fn.second_derivative_mappings.isNone
                         /\ p \in DOMAIN fn.second_derivative_mappings.d
                         /\ q \in DOMAIN fn.second_derivative_mappings.d[p][k]
                    /\ ~IsOk(second) => second = Raise("ValueError")
                    /\ IsOk(second) =>
                         \A r \in DOMAIN ParametersOf(fn) : \A l \in 0..(ParametersOf(fn)[r] - 1) :
                           D_mu(second.value, r, l) = Raise("ValueError")

\* the third successive differentiation has been made, and raised
C25_Witness ==
  /\ GenericD_muCall
  /\ Len(fn.name) = 3
  /\ fn.name[1] = "GenericParameterFunctional"
  /\ fret = Raise("ValueError")


\* ------------------------------------------------------------------------
\* Properties of the array operations of solve_sylv_schur
\* ------------------------------------------------------------------------
\* the precondition checks have passed and the solve is under way
ChecksPassed == pc \in {"start_V", "loop_V", "start_W", "loop_W"}

\* C26: once the precondition checks of solve_sylv_schur have passed, no
\* operation fails for a length or space mismatch: every lincomb gets as
\* many coefficients as the array has vectors, B.apply gets an array of
\* B.source, C.apply_adjoint one of C.range, every right-hand side handed to
\* the inverse application is a single vector of A.source, and every vector
\* appended to V or W lies in A.source.
C26_NoMismatch ==
  /\ ChecksPassed => \A o \in SylvOperations : o.ok
  /\ \A k \in 1..Len(V) :
       /\ V[k].space = A.source
       /\ \A c \in 1..Len(V[k].rhs.subs) : Len(V[k].rhs.subs[c].coefs) = V[k].rhs.subs[c].n
  /\ \A k \in 1..Len(W) :
       /\ W[k].space = A.source
       /\ \A c \in 1..Len(W[k].rhs.subs) : Len(W[k].rhs.subs[c].coefs) = W[k].rhs.subs[c].n

\* the last pass of the W loop is about to run, with V solved before and
\* both corrections to be subtracted
C26_Witness ==
  /\ pc = "loop_W" /\ rdim = MaxR /\ it = rdim - 1
  /\ Er # None /\ compute_V /\ Len(V) = rdim
  /\ Cardinality(SylvOperations) >= 6


\* ------------------------------------------------------------------------
\* Properties of the arguments of ExpressionParameterFunctional
\* ------------------------------------------------------------------------
\* C27: constructing an ExpressionParameterFunctional leaves the caller's
\* derivative_expressions and second_derivative_expressions unchanged at
\* every nesting level: after the construction, and after any further
\* constructions from the same objects, they still hold the expression
\* strings passed in and no compiled callable.
C27_ArgumentsUnchanged ==
  exprArgs.supplied # <<>> =>
    /\ exprArgs.derivative_expressions = exprArgs.supplied[4]
    /\ exprArgs.second_derivative_expressions = exprArgs.supplied[5]
    /\ exprArgs.derivative_expressions.isNone \/ AllCompile(exprArgs.derivative_expressions.d)
    /\ \/ exprArgs.second_derivative_expressions.isNone
       \/ AllCompileSecond(exprArgs.second_derivative_expressions.d)


\* ------------------------------------------------------------------------
\* Properties of the vector_arrays strategy
\* ------------------------------------------------------------------------
\* the entries of a list
Elements(list) == {list[k] : k \in 1..Len(list)}
NoDuplicates(list) == Cardinality(Elements(list)) = Len(list)

\* C28: when at least one optional backend is available, any sequence of
\* calls of vector_arrays leaves the module-level list of picklable space
\* types unchanged, a call with picklable_only=True draws only from 'numpy'
\* and 'numpy_list' whatever calls preceded it, and each space type is drawn
\* at most once per call.
C28_PicklableListUnchanged ==
  other_vector_space_types # <<>> =>
    /\ picklable_vector_space_types = PicklableTypes
    /\ (va.calls > 0 /\ va.picklable_only) => Elements(va.space_types) \subseteq Elements(PicklableTypes)
    /\ NoDuplicates(va.space_types)


\* ------------------------------------------------------------------------
\* Properties of VTKPlot
\* ------------------------------------------------------------------------
\* C29: for a VTKPlot of n >= 1 frames, after any sequence of inc(), dec()
\* and _goto_idx(k) the frame index satisfies 0 <= idx < n and the shown
\* timestep and mesh are those of frame idx; a request for an index outside
\* [0, n) raises RuntimeWarning, a request for one inside always succeeds.
C29_FrameIndexInRange ==
  plot.n >= 1 =>
    /\ 0 <= plot.idx /\ plot.idx < plot.n
    /\ plot.timestep = plot.idx /\ plot.mesh = plot.idx
    /\ plot.call \in {"_goto_idx", "dec", "inc"} =>
         IF 0 <= plot.arg /\ plot.arg < plot.n
         THEN plot.error = "none" /\ plot.idx = plot.arg
         ELSE plot.error = "RuntimeWarning"


\* ------------------------------------------------------------------------
\* Properties of the operator fixtures
\* ------------------------------------------------------------------------
\* C30: ProjectionParameterFunctional construction succeeds exactly when
\* size is a number and index (0 when omitted with size 1) is a number with
\* 0 <= index < size, and every one of the 12 misc factory cases, the
\* SelectionOperator cases 5, 6, 7 included, yields an operator.
C30_FixturesConstruct ==
  /\ fcall.op = "ProjectionParameterFunctional" =>
       LET size == fcall.args[2]
           index == fcall.args[3]
       IN  IsOk(fret) <=>
             /\ size.kind = "Number"
             /\ \/ index.kind = "None" /\ size.value = 1
                \/ index.kind = "Number" /\ 0 <= index.value /\ index.value < size.value
  /\ fcall.op = "misc_operator_factory" => IsOk(fret)

====
